---- MODULE Spec2Model ----
(***************************************************************************)
(* audio2strudel: the audio-to-symbolic analysis pipeline.                 *)
(*                                                                         *)
(* Two entry points exist in the source: the single-file page              *)
(* (src/unnamed/part_000) and the batch page (src/shared/schema.ts).       *)
(* Definitions of the batch page carry the suffix _batch where the single- *)
(* file page defines a function of the same name.                          *)
(*                                                                         *)
(* Real numbers are exact here: a real quantity is an integer count of a   *)
(* stated unit, or a fraction <<numerator, denominator>>.  Floating-point  *)
(* rounding of the JavaScript arithmetic is not modelled.                  *)
(*                                                                         *)
(* A note name is a sequence of one-character strings, <<"c","s","4">>,    *)
(* so that the regular expressions of the source act on characters.        *)
(***************************************************************************)
EXTENDS Integers, Sequences, FiniteSets, TLC

VARIABLES
    \* key estimation (detectKey of both pages)
    keyPath,               \* "single" | "batch": which page's detectKey runs
    pitchClassHistogram,   \* input of the single-file detectKey, 12 bins
    keyNotes,              \* input of the batch detectKey, a melody
    chromaCounts,          \* batch detectKey: the 12 bins filled from the notes
    shift,                 \* the loop variable (shift; i on the batch page)
    bestKey,               \* the running best label
    bestCorr,              \* the running maximum
    detectedKey,           \* the label returned
    keyPc,                 \* "idle" | "input" | "loop" | "done"
    \* quantization (quantizeNotes)
    quantizeInput,         \* the notes passed to quantizeNotes
    quantizeTempo,         \* its tempo argument
    quantizeValue,         \* its quantizeValue argument
    quantized,             \* quantizeNotes(quantizeInput, ...)
    requantized,           \* quantizeNotes(quantized, ...)
    quantPc,               \* "idle" | "input" | "once" | "twice"
    \* analysis and notation (analyzeAudio, analyzeAudioFile, generateStrudelCode)
    entry,                 \* "single" | "batch": the page that analyses
    analysisParams,        \* the analysis parameters of the page
    detectedTempo,         \* what detectTempo returns for the audio
    rawMelody,             \* what note segmentation returns for the audio
    melody,                \* the melody of the result; after an edit, the edited one
    chords,                \* the chords of the result
    estimatedTempo,        \* the tempo the result reports
    passedTempo,           \* the tempo argument generateStrudelCode received
    passedTimeSignature,   \* its timeSignature argument
    strudelCode,           \* the notation shown: melody, chords, combined
    edits,                 \* number of edits made in the note editor
    analysisPc,            \* "idle" | "input" | "done"
    \* tempo estimation (detectTempo of both pages)
    tempoPath,             \* "single" | "batch": which page's detectTempo runs
    energies,              \* the per-frame (per-window) energies of the audio
    onsets,                \* single: onsetStrength; batch: onset times
    tempo_batch,           \* batch: the variable tempo of detectTempo
    bpm,                   \* single: the candidate of the loop
    bestBpm,               \* single: the running best candidate
    bestScore,             \* single: the running best score
    detectedBpm,           \* the number returned
    tempoPc,               \* "idle" | "input" | "scan" | "doubling" | "halving" | "done"
    \* note segmentation (extractMelody, and the frame loop of analyzeAudioFile)
    segPath,               \* "single" | "batch": which page segments
    segFrames,             \* per frame: its rms and the note name of its pitch
    segMinNoteDuration,    \* params.minNoteDuration, in milliseconds
    segFrame,              \* the number of frames processed (i / hopSize)
    segLastNote,           \* lastNote
    segNoteStartTime,      \* noteStartTime
    segNotes,              \* notes, the list being built
    segHistogram,          \* pitchClassHistogram of extractMelody
    segResult,             \* the notes handed to the analysis result
    segPc,                 \* "idle" | "frames" | "flush" | "return" | "done"
    \* sequence-file export (exportMelodyToMidi)
    midiMelody,            \* the melody handed to the export
    midiChords,            \* the chords handed to the export
    midiOptions,           \* the options object of the call
    midiAbsoluteEvents,    \* absoluteEvents as pushed, before the sort
    midiSortedEvents,      \* absoluteEvents after the sort
    midiDeltaEvents,       \* deltaEvents
    midiData,              \* the bytes returned
    midiPc,                \* "idle" | "input" | "done"
    \* variable-length quantities (writeVariableLengthQuantity)
    vlqValue,              \* the value handed to the encoder
    vlqBytes,              \* the bytes returned
    vlqPc,                 \* "idle" | "input" | "done"
    \* pitch names and key numbers (frequencyToNote, transposeNote, noteToMidi)
    pitchSource,           \* "single" | "batch" | "chords": where the name comes from
    pitchHalfSteps,        \* the distance of the frequency from C0, in half steps
    pitchName,             \* the pitch name produced
    pitchKey,              \* noteToMidi of the sequence-file encoder
    pitchKey_timeline,     \* noteToMidi of the piano roll
    pitchPc,               \* "idle" | "input" | "named" | "done"
    \* chord generation (extractChords, generateChords)
    chordsPath,            \* "single" | "batch" | "transpose"
    chordsKey,             \* the key handed to the generator
    chordsSeconds,         \* the duration of the recording, in seconds
    chordsEnergies,        \* the summed magnitude of each segment, repeating
    chordsMelody,          \* the notes handed to generateChords
    chordsTransposition,   \* transposition
    chordsBank,            \* transposedChords, or the progression that is used
    chordsResult,          \* the chords returned
    chordsPc,              \* "idle" | "input" | "done"
    \* one analysis of the single-file page, from the decoded buffer to the result (analyzeAudio)
    scenarioSamples,       \* channelData.length
    scenarioSound,         \* "silent": every sample is 0 | "tone": the recording sounds
    scenarioTargetKey,     \* params.targetKey, or "" when the key is detected
    scenarioPc,            \* "idle" | "decoded" | "tempo" | "melody" | "key" | "chords" | "generating" | "complete"
    \* one page of the single-file analysis: its React state and the run of analyzeAudio
    runFile,               \* file: the name of the selected file, "" for null
    runProcessing,         \* processing
    runResult,             \* result: <<>> for null, else the result in a list
    runError,              \* error: <<>> for null, else the message in a list
    runThrown,             \* what the try block of the last run threw, and from where
    runStages,             \* the stages after decoding that ran in this run
    runClicks,             \* the times the Analyze button was pressed
    runDecodes,            \* the times decodeAudioData was called
    runPc,                 \* "idle" | "decoding" | "stages" | "closing" | "catch" | "finally"
    \* the batch page: its queue of files and one run of processFiles
    batchFiles,            \* files: per file its id and status
    batchResults,          \* results: per entry the id and whether it carries a result or an error
    isProcessing,          \* isProcessing
    processingRef,         \* processingRef.current
    pendingFiles,          \* pendingFiles of the run: the ids, in list order
    batchIndex,            \* the position of the for loop in pendingFiles
    batchNextId,           \* the number of files selected so far (their ids are distinct)
    batchStopped,          \* stopProcessing was called during the run
    batchResumes,          \* the run follows a run that was stopped
    batchStarted,          \* the ids set to "processing" so far, in order
    batchPc,               \* "off" | "idle" | "loop" | "analyzing" | "end"
    \* the silence test of the segmenters at two settings of the pitch sensitivity
    sensPath,              \* "single" | "batch": which page segments
    sensLower,             \* the lower of two settings of params.pitchSensitivity
    sensHigher,            \* the higher one
    sensRms,               \* the rms of a frame
    sensSilent,            \* whether the frame is silence at the lower and at the higher setting
    sensPc,                \* "idle" | "input" | "done"
    \* the note editor (client/src/components/note-editor.tsx)
    editorSession,         \* "pitch" | "undo": what the session exercises
    editorMelody,          \* the melody prop: the notes shown and edited
    editorChords,          \* the chords prop
    editorHistory,         \* history: the snapshots undo goes back to
    editorBase,            \* the (melody, chords) pair at the last mark
    editorDepth,           \* edits since the mark that are not undone
    editorEdits            \* edits made in the session

keyVars ==
    <<keyPath, pitchClassHistogram, keyNotes, chromaCounts, shift, bestKey,
      bestCorr, detectedKey, keyPc>>

quantVars ==
    <<quantizeInput, quantizeTempo, quantizeValue, quantized, requantized,
      quantPc>>

analysisVars ==
    <<entry, analysisParams, detectedTempo, rawMelody, melody, chords,
      estimatedTempo, passedTempo, passedTimeSignature, strudelCode, edits,
      analysisPc>>

tempoVars ==
    <<tempoPath, energies, onsets, tempo_batch, bpm, bestBpm, bestScore,
      detectedBpm, tempoPc>>

segVars ==
    <<segPath, segFrames, segMinNoteDuration, segFrame, segLastNote,
      segNoteStartTime, segNotes, segHistogram, segResult, segPc>>

midiVars ==
    <<midiMelody, midiChords, midiOptions, midiAbsoluteEvents,
      midiSortedEvents, midiDeltaEvents, midiData, midiPc>>

vlqVars == <<vlqValue, vlqBytes, vlqPc>>

pitchVars == <<pitchSource, pitchHalfSteps, pitchName, pitchKey, pitchKey_timeline, pitchPc>>

chordsVars == <<chordsPath, chordsKey, chordsSeconds, chordsEnergies, chordsMelody, chordsTransposition, chordsBank, chordsResult, chordsPc>>

scenarioVars == <<scenarioSamples, scenarioSound, scenarioTargetKey, scenarioPc>>

runVars == <<runFile, runProcessing, runResult, runError, runThrown, runStages, runClicks, runDecodes, runPc>>

batchVars == <<batchFiles, batchResults, isProcessing, processingRef, pendingFiles, batchIndex, batchNextId, batchStopped, batchResumes, batchStarted, batchPc>>

sensVars == <<sensPath, sensLower, sensHigher, sensRms, sensSilent, sensPc>>

editorVars ==
    <<editorSession, editorMelody, editorChords, editorHistory, editorBase,
      editorDepth, editorEdits>>

vars == <<keyVars, quantVars, analysisVars, tempoVars, segVars, midiVars, vlqVars, pitchVars, chordsVars, scenarioVars, runVars, batchVars, sensVars, editorVars>>

\* What each function's variables hold while another function is examined.
KeyIdle ==
    /\ keyPath = "none"
    /\ pitchClassHistogram = <<>>
    /\ keyNotes = <<>>
    /\ chromaCounts = <<>>
    /\ shift = 0
    /\ bestKey = ""
    /\ bestCorr = <<>>
    /\ detectedKey = ""
    /\ keyPc = "idle"

QuantIdle ==
    /\ quantizeInput = <<>>
    /\ quantizeTempo = 0
    /\ quantizeValue = ""
    /\ quantized = <<>>
    /\ requantized = <<>>
    /\ quantPc = "idle"

AnalysisIdle ==
    /\ entry = "none"
    /\ analysisParams = <<>>
    /\ detectedTempo = 0
    /\ rawMelody = <<>>
    /\ melody = <<>>
    /\ chords = <<>>
    /\ estimatedTempo = 0
    /\ passedTempo = 0
    /\ passedTimeSignature = <<>>
    /\ strudelCode = <<>>
    /\ edits = 0
    /\ analysisPc = "idle"

TempoIdle ==
    /\ tempoPath = "none"
    /\ energies = <<>>
    /\ onsets = <<>>
    /\ tempo_batch = <<>>
    /\ bpm = 0
    /\ bestBpm = 0
    /\ bestScore = <<>>
    /\ detectedBpm = 0
    /\ tempoPc = "idle"

SegIdle ==
    /\ segPath = "none"
    /\ segFrames = <<>>
    /\ segMinNoteDuration = 0
    /\ segFrame = 0
    /\ segLastNote = <<>>
    /\ segNoteStartTime = <<>>
    /\ segNotes = <<>>
    /\ segHistogram = <<>>
    /\ segResult = <<>>
    /\ segPc = "idle"

MidiIdle ==
    /\ midiMelody = <<>>
    /\ midiChords = <<>>
    /\ midiOptions = <<>>
    /\ midiAbsoluteEvents = <<>>
    /\ midiSortedEvents = <<>>
    /\ midiDeltaEvents = <<>>
    /\ midiData = <<>>
    /\ midiPc = "idle"

VlqIdle ==
    /\ vlqValue = 0
    /\ vlqBytes = <<>>
    /\ vlqPc = "idle"

PitchIdle ==
    /\ pitchSource = "none"
    /\ pitchHalfSteps = <<>>
    /\ pitchName = <<>>
    /\ pitchKey = 0
    /\ pitchKey_timeline = 0
    /\ pitchPc = "idle"

ChordsIdle ==
    /\ chordsPath = "none"
    /\ chordsKey = ""
    /\ chordsSeconds = <<>>
    /\ chordsEnergies = <<>>
    /\ chordsMelody = <<>>
    /\ chordsTransposition = 0
    /\ chordsBank = <<>>
    /\ chordsResult = <<>>
    /\ chordsPc = "idle"

ScenarioIdle ==
    /\ scenarioSamples = 0
    /\ scenarioSound = "none"
    /\ scenarioTargetKey = ""
    /\ scenarioPc = "idle"

RunIdle ==
    /\ runFile = ""
    /\ runProcessing = FALSE
    /\ runResult = <<>>
    /\ runError = <<>>
    /\ runThrown = <<>>
    /\ runStages = 0
    /\ runClicks = 0
    /\ runDecodes = 0
    /\ runPc = "idle"

BatchIdle ==
    /\ batchFiles = <<>>
    /\ batchResults = <<>>
    /\ isProcessing = FALSE
    /\ processingRef = FALSE
    /\ pendingFiles = <<>>
    /\ batchIndex = 0
    /\ batchNextId = 0
    /\ batchStopped = FALSE
    /\ batchResumes = FALSE
    /\ batchStarted = <<>>
    /\ batchPc = "idle"

SensIdle ==
    /\ sensPath = "none"
    /\ sensLower = 0
    /\ sensHigher = 0
    /\ sensRms = <<>>
    /\ sensSilent = <<>>
    /\ sensPc = "idle"

EditorIdle ==
    /\ editorSession = ""
    /\ editorMelody = <<>>
    /\ editorChords = <<>>
    /\ editorHistory = <<>>
    /\ editorBase = <<>>
    /\ editorDepth = 0
    /\ editorEdits = 0

notKeyVars ==
    <<quantVars, analysisVars, tempoVars, segVars, midiVars, vlqVars,
      pitchVars, chordsVars, scenarioVars, runVars, batchVars, sensVars, editorVars>>
notQuantVars ==
    <<keyVars, analysisVars, tempoVars, segVars, midiVars, vlqVars,
      pitchVars, chordsVars, scenarioVars, runVars, batchVars, sensVars, editorVars>>
notAnalysisVars ==
    <<keyVars, quantVars, tempoVars, segVars, midiVars, vlqVars,
      pitchVars, chordsVars, scenarioVars, runVars, batchVars, sensVars, editorVars>>
notTempoVars ==
    <<keyVars, quantVars, analysisVars, segVars, midiVars, vlqVars,
      pitchVars, chordsVars, scenarioVars, runVars, batchVars, sensVars, editorVars>>
notSegVars ==
    <<keyVars, quantVars, analysisVars, tempoVars, midiVars, vlqVars,
      pitchVars, chordsVars, scenarioVars, runVars, batchVars, sensVars, editorVars>>
notMidiVars ==
    <<keyVars, quantVars, analysisVars, tempoVars, segVars, vlqVars,
      pitchVars, chordsVars, scenarioVars, runVars, batchVars, sensVars, editorVars>>
notVlqVars ==
    <<keyVars, quantVars, analysisVars, tempoVars, segVars, midiVars,
      pitchVars, chordsVars, scenarioVars, runVars, batchVars, sensVars, editorVars>>
notPitchVars ==
    <<keyVars, quantVars, analysisVars, tempoVars, segVars, midiVars,
      vlqVars, chordsVars, scenarioVars, runVars, batchVars, sensVars, editorVars>>
notChordsVars ==
    <<keyVars, quantVars, analysisVars, tempoVars, segVars, midiVars,
      vlqVars, pitchVars, scenarioVars, runVars, batchVars, sensVars, editorVars>>
notScenarioVars ==
    <<keyVars, quantVars, analysisVars, tempoVars, segVars, midiVars,
      vlqVars, pitchVars, chordsVars, runVars, batchVars, sensVars, editorVars>>
notRunVars ==
    <<keyVars, quantVars, analysisVars, tempoVars, segVars, midiVars,
      vlqVars, pitchVars, chordsVars, scenarioVars, batchVars, sensVars, editorVars>>
notBatchVars ==
    <<keyVars, quantVars, analysisVars, tempoVars, segVars, midiVars,
      vlqVars, pitchVars, chordsVars, scenarioVars, runVars, sensVars, editorVars>>
notSensVars ==
    <<keyVars, quantVars, analysisVars, tempoVars, segVars, midiVars,
      vlqVars, pitchVars, chordsVars, scenarioVars, runVars, batchVars, editorVars>>
notEditorVars ==
    <<keyVars, quantVars, analysisVars, tempoVars, segVars, midiVars,
      vlqVars, pitchVars, chordsVars, scenarioVars, runVars, batchVars, sensVars>>

IdleButKey ==
    /\ QuantIdle
    /\ AnalysisIdle
    /\ TempoIdle
    /\ SegIdle
    /\ MidiIdle
    /\ VlqIdle
    /\ PitchIdle
    /\ ChordsIdle
    /\ ScenarioIdle
    /\ RunIdle
    /\ BatchIdle
    /\ SensIdle
    /\ EditorIdle
IdleButQuant ==
    /\ KeyIdle
    /\ AnalysisIdle
    /\ TempoIdle
    /\ SegIdle
    /\ MidiIdle
    /\ VlqIdle
    /\ PitchIdle
    /\ ChordsIdle
    /\ ScenarioIdle
    /\ RunIdle
    /\ BatchIdle
    /\ SensIdle
    /\ EditorIdle
IdleButAnalysis ==
    /\ KeyIdle
    /\ QuantIdle
    /\ TempoIdle
    /\ SegIdle
    /\ MidiIdle
    /\ VlqIdle
    /\ PitchIdle
    /\ ChordsIdle
    /\ ScenarioIdle
    /\ RunIdle
    /\ BatchIdle
    /\ SensIdle
    /\ EditorIdle
IdleButTempo ==
    /\ KeyIdle
    /\ QuantIdle
    /\ AnalysisIdle
    /\ SegIdle
    /\ MidiIdle
    /\ VlqIdle
    /\ PitchIdle
    /\ ChordsIdle
    /\ ScenarioIdle
    /\ RunIdle
    /\ BatchIdle
    /\ SensIdle
    /\ EditorIdle
IdleButSeg ==
    /\ KeyIdle
    /\ QuantIdle
    /\ AnalysisIdle
    /\ TempoIdle
    /\ MidiIdle
    /\ VlqIdle
    /\ PitchIdle
    /\ ChordsIdle
    /\ ScenarioIdle
    /\ RunIdle
    /\ BatchIdle
    /\ SensIdle
    /\ EditorIdle
IdleButMidi ==
    /\ KeyIdle
    /\ QuantIdle
    /\ AnalysisIdle
    /\ TempoIdle
    /\ SegIdle
    /\ VlqIdle
    /\ PitchIdle
    /\ ChordsIdle
    /\ ScenarioIdle
    /\ RunIdle
    /\ BatchIdle
    /\ SensIdle
    /\ EditorIdle
IdleButVlq ==
    /\ KeyIdle
    /\ QuantIdle
    /\ AnalysisIdle
    /\ TempoIdle
    /\ SegIdle
    /\ MidiIdle
    /\ PitchIdle
    /\ ChordsIdle
    /\ ScenarioIdle
    /\ RunIdle
    /\ BatchIdle
    /\ SensIdle
    /\ EditorIdle
IdleButPitch ==
    /\ KeyIdle
    /\ QuantIdle
    /\ AnalysisIdle
    /\ TempoIdle
    /\ SegIdle
    /\ MidiIdle
    /\ VlqIdle
    /\ ChordsIdle
    /\ ScenarioIdle
    /\ RunIdle
    /\ BatchIdle
    /\ SensIdle
    /\ EditorIdle
IdleButChords ==
    /\ KeyIdle
    /\ QuantIdle
    /\ AnalysisIdle
    /\ TempoIdle
    /\ SegIdle
    /\ MidiIdle
    /\ VlqIdle
    /\ PitchIdle
    /\ ScenarioIdle
    /\ RunIdle
    /\ BatchIdle
    /\ SensIdle
    /\ EditorIdle
IdleButScenario ==
    /\ KeyIdle
    /\ QuantIdle
    /\ AnalysisIdle
    /\ TempoIdle
    /\ SegIdle
    /\ MidiIdle
    /\ VlqIdle
    /\ PitchIdle
    /\ ChordsIdle
    /\ RunIdle
    /\ BatchIdle
    /\ SensIdle
    /\ EditorIdle
IdleButRun ==
    /\ KeyIdle
    /\ QuantIdle
    /\ AnalysisIdle
    /\ TempoIdle
    /\ SegIdle
    /\ MidiIdle
    /\ VlqIdle
    /\ PitchIdle
    /\ ChordsIdle
    /\ ScenarioIdle
    /\ BatchIdle
    /\ SensIdle
    /\ EditorIdle
IdleButBatch ==
    /\ KeyIdle
    /\ QuantIdle
    /\ AnalysisIdle
    /\ TempoIdle
    /\ SegIdle
    /\ MidiIdle
    /\ VlqIdle
    /\ PitchIdle
    /\ ChordsIdle
    /\ ScenarioIdle
    /\ RunIdle
    /\ SensIdle
    /\ EditorIdle
IdleButSens ==
    /\ KeyIdle
    /\ QuantIdle
    /\ AnalysisIdle
    /\ TempoIdle
    /\ SegIdle
    /\ MidiIdle
    /\ VlqIdle
    /\ PitchIdle
    /\ ChordsIdle
    /\ ScenarioIdle
    /\ RunIdle
    /\ BatchIdle
    /\ EditorIdle
IdleButEditor ==
    /\ KeyIdle
    /\ QuantIdle
    /\ AnalysisIdle
    /\ TempoIdle
    /\ SegIdle
    /\ MidiIdle
    /\ VlqIdle
    /\ PitchIdle
    /\ ChordsIdle
    /\ ScenarioIdle
    /\ RunIdle
    /\ BatchIdle
    /\ SensIdle

----------------------------------------------------------------------------
(* Generic helpers: JavaScript arrays are 0-based.                         *)

At0(arr, i) == arr[i + 1]

Range0(arr) == 0 .. (Len(arr) - 1)

\* The array <<Op(1), ..., Op(n)>>.
Tabulate(n, Op(_)) == SubSeq([k \in 1 .. n |-> Op(k)], 1, n)

RECURSIVE SumSeq(_)
SumSeq(arr) == IF arr = <<>> THEN 0 ELSE Head(arr) + SumSeq(Tail(arr))

\* Array.prototype.indexOf: the first 0-based position of x, or -1.
RECURSIVE indexOfFrom(_, _, _)
indexOfFrom(arr, x, i) ==
    IF i >= Len(arr) THEN -1
    ELSE IF At0(arr, i) = x THEN i
    ELSE indexOfFrom(arr, x, i + 1)

indexOf(arr, x) == indexOfFrom(arr, x, 0)

\* Array.prototype.join for arrays of strings.
RECURSIVE join(_, _)
join(arr, sep) ==
    IF arr = <<>> THEN ""
    ELSE IF Len(arr) = 1 THEN arr[1]
    ELSE arr[1] \o sep \o join(Tail(arr), sep)

\* The text of a character sequence.
Text(chars) == join(chars, "")

LowerLetters == {"a", "b", "c", "d", "e", "f", "g"}
UpperLetters == {"A", "B", "C", "D", "E", "F", "G"}
DigitChars == {"0", "1", "2", "3", "4", "5", "6", "7", "8", "9"}

DigitValue(ch) ==
    CASE ch = "0" -> 0 [] ch = "1" -> 1 [] ch = "2" -> 2 [] ch = "3" -> 3
      [] ch = "4" -> 4 [] ch = "5" -> 5 [] ch = "6" -> 6 [] ch = "7" -> 7
      [] ch = "8" -> 8 [] ch = "9" -> 9

DigitChar(d) == At0(<<"0", "1", "2", "3", "4", "5", "6", "7", "8", "9">>, d)

toLowerCase(ch) ==
    CASE ch = "A" -> "a" [] ch = "B" -> "b" [] ch = "C" -> "c" [] ch = "D" -> "d"
      [] ch = "E" -> "e" [] ch = "F" -> "f" [] ch = "G" -> "g" [] ch = "S" -> "s"
      [] OTHER -> ch

toUpperCase(ch) ==
    CASE ch = "a" -> "A" [] ch = "b" -> "B" [] ch = "c" -> "C" [] ch = "d" -> "D"
      [] ch = "e" -> "E" [] ch = "f" -> "F" [] ch = "g" -> "G" [] ch = "s" -> "S"
      [] OTHER -> ch

\* parseInt of a non-empty sequence of digit characters.
RECURSIVE parseIntFrom(_, _)
parseIntFrom(digits, acc) ==
    IF digits = <<>> THEN acc
    ELSE parseIntFrom(Tail(digits), 10 * acc + DigitValue(Head(digits)))

parseInt(digits) == parseIntFrom(digits, 0)

\* The length of the longest prefix of chars whose characters are all in set.
RECURSIVE PrefixIn(_, _)
PrefixIn(chars, set) ==
    IF chars = <<>> \/ Head(chars) \notin set THEN 0
    ELSE 1 + PrefixIn(Tail(chars), set)

\* note.match(/^([a-gs]+)(\d+)$/): <<name, digits>> of the match, or <<>>.
\* [a-gs]+ is greedy and no digit is in its class, so the split is unique.
matchNameOctave(chars) ==
    LET n == PrefixIn(chars, LowerLetters \cup {"s"})
        rest == SubSeq(chars, n + 1, Len(chars))
    IN  IF n >= 1 /\ Len(rest) >= 1 /\ PrefixIn(rest, DigitChars) = Len(rest)
        THEN <<SubSeq(chars, 1, n), rest>>
        ELSE <<>>

----------------------------------------------------------------------------
(* Exact real arithmetic: a real number is a fraction <<n, d>> with d > 0,  *)
(* in lowest terms.  undefined is the empty tuple.                         *)

RECURSIVE GCD(_, _)
GCD(m, n) == IF n = 0 THEN m ELSE GCD(n, m % n)

Abs(n) == IF n < 0 THEN -n ELSE n

Frac(n, d) ==
    LET g == GCD(Abs(n), Abs(d))
        sign == IF d < 0 THEN -1 ELSE 1
    IN  <<(sign * n) \div g, (sign * d) \div g>>

Whole(n) == <<n, 1>>

undefined == <<>>

FracAdd(x, y) == Frac(x[1] * y[2] + y[1] * x[2], x[2] * y[2])
FracSub(x, y) == Frac(x[1] * y[2] - y[1] * x[2], x[2] * y[2])
FracMul(x, y) == Frac(x[1] * y[1], x[2] * y[2])
FracDiv(x, y) == Frac(x[1] * y[2], x[2] * y[1])
FracLt(x, y) == x[1] * y[2] < y[1] * x[2]
FracLe(x, y) == x[1] * y[2] <= y[1] * x[2]
FracAbs(x) == <<Abs(x[1]), x[2]>>
FracMax(x, y) == IF FracLt(x, y) THEN y ELSE x
FracMin(x, y) == IF FracLt(y, x) THEN y ELSE x

\* Math.floor: \div rounds towards minus infinity.
FracFloor(x) == x[1] \div x[2]

\* Math.round: the nearest integer, a half rounding up.
FracRound(x) == (2 * x[1] + x[2]) \div (2 * x[2])

\* The truthiness of a number or undefined: 0 and undefined are falsy.
truthy(x) == x # undefined /\ x[1] # 0

\* x || fallback
orElse(x, fallback) == IF truthy(x) THEN x ELSE fallback

\* -Infinity: below every fraction under FracLt.
MinusInfinity == <<-1, 0>>

RECURSIVE FracSum(_)
FracSum(arr) ==
    IF arr = <<>> THEN Whole(0) ELSE FracAdd(Head(arr), FracSum(Tail(arr)))

----------------------------------------------------------------------------
(* Lookup tables.                                                          *)

\* The twelve-name chromatic table starting at C, lower case, 's' for sharp.
noteNames ==
    << <<"c">>, <<"c", "s">>, <<"d">>, <<"d", "s">>, <<"e">>, <<"f">>,
       <<"f", "s">>, <<"g">>, <<"g", "s">>, <<"a">>, <<"a", "s">>, <<"b">> >>

\* The key labels of the single-file detectKey.
keyNoteNames ==
    <<"C", "C#", "D", "D#", "E", "F", "F#", "G", "G#", "A", "A#", "B">>

\* The Krumhansl-Schmuckler profiles, in hundredths.
majorProfile == <<635, 223, 348, 233, 438, 409, 252, 519, 239, 366, 229, 288>>
minorProfile == <<633, 268, 352, 538, 260, 353, 254, 475, 398, 269, 334, 317>>

\* new Array(12).fill(0)
ZeroHistogram == <<0, 0, 0, 0, 0, 0, 0, 0, 0, 0, 0, 0>>


----------------------------------------------------------------------------
(* Key estimation, single-file page: detectKey(pitchClassHistogram).       *)
(* The histogram is in whole units of energy: normalize makes its scale    *)
(* irrelevant.                                                             *)

\* normalize divides every element by the sum of the array when that sum is
\* positive and returns the array itself otherwise: the divisor.
normalizeDivisor(arr) == IF SumSeq(arr) > 0 THEN SumSeq(arr) ELSE 1

\* shiftedMajor / shiftedMinor: element i is profile[(i + shift) % 12].
shiftedProfile(profile, by) ==
    Tabulate(12, LAMBDA i : At0(profile, ((i - 1) + by) % 12))

\* The inner loop without the divisors: sum over i of hist[i] * shifted[i].
dotProduct(a, b) == SumSeq(Tabulate(12, LAMBDA i : a[i] * b[i]))

\* majorCorr and minorCorr of one shift.  Their values are
\*    dotProduct / (normalizeDivisor(hist) * normalizeDivisor(profile));
\* both are given here multiplied by the same positive number
\*    normalizeDivisor(hist) * sum(majorProfile) * sum(minorProfile),
\* which keeps them whole and changes no comparison of the loop.  Rotating a
\* profile does not change its sum.
majorCorr(hist, by) ==
    Whole(dotProduct(hist, shiftedProfile(majorProfile, by))
            * normalizeDivisor(minorProfile))

minorCorr(hist, by) ==
    Whole(dotProduct(hist, shiftedProfile(minorProfile, by))
            * normalizeDivisor(majorProfile))

\* A running maximum that also replaces the best candidate on a tie.
exceedsBest_orEqual(corr, best) == FracLe(best, corr)

\* The comparison of the running maximum, if (corr > bestCorr).
exceedsBest(corr, best) == FracLt(best, corr)

\* One iteration of the loop over shift: major is compared first, then minor.
detectKeyStep(hist, by, best) ==
    LET major == majorCorr(hist, by)
        minor == minorCorr(hist, by)
        afterMajor ==
            IF exceedsBest(major, best.bestCorr)
            THEN [bestCorr |-> major, bestKey |-> At0(keyNoteNames, by)]
            ELSE best
    IN  IF exceedsBest(minor, afterMajor.bestCorr)
        THEN [bestCorr |-> minor, bestKey |-> At0(keyNoteNames, by) \o "m"]
        ELSE afterMajor

----------------------------------------------------------------------------
(* Key estimation, batch page: detectKey(notes).                           *)

\* A note's weight, (note.duration || 0.25) * (note.velocity || 0.8).
noteWeight(note) ==
    FracMul(orElse(note.duration, Frac(1, 4)), orElse(note.velocity, Frac(4, 5)))

\* The pitch-class index detectKey finds for a note, -1 when the name does
\* not match /^([a-gs]+)(\d+)$/ or names no entry of noteNames.
chromaIndex(note) ==
    LET noteMatch == matchNameOctave(note.note)
    IN  IF noteMatch = <<>> THEN -1
        ELSE indexOf(noteNames,
                     Tabulate(Len(noteMatch[1]),
                              LAMBDA k : toLowerCase(noteMatch[1][k])))

\* The loop over the notes that fills chromaCounts: bin pc collects the
\* weights of the notes whose index is pc.
fillChromaCounts(notes) ==
    Tabulate(12, LAMBDA bin :
        FracSum(Tabulate(Len(notes), LAMBDA n :
                    IF chromaIndex(notes[n]) = bin - 1
                    THEN noteWeight(notes[n]) ELSE Whole(0))))

\* rotatedCounts = [...chromaCounts.slice(i), ...chromaCounts.slice(0, i)]
rotatedCounts(counts, i) ==
    SubSeq(counts, i + 1, 12) \o SubSeq(counts, 1, i)

\* The inner loop: sum over j of rotatedCounts[j] * profile[j], the profile
\* in hundredths.
dotProduct_batch(counts, profile) ==
    FracSum(Tabulate(12, LAMBDA j : FracMul(counts[j], Whole(profile[j]))))

majorCorr_batch(counts, i) ==
    dotProduct_batch(rotatedCounts(counts, i), majorProfile)

minorCorr_batch(counts, i) ==
    dotProduct_batch(rotatedCounts(counts, i), minorProfile)

\* noteNames[i].toUpperCase().replace("S", "#"): replace changes the first
\* occurrence only, and a name holds at most one s.
keyLabel_batch(i) ==
    LET upper == Tabulate(Len(At0(noteNames, i)),
                          LAMBDA k : toUpperCase(At0(noteNames, i)[k]))
        at == indexOf(upper, "S")
    IN  Text(IF at >= 0 THEN [upper EXCEPT ![at + 1] = "#"] ELSE upper)

\* One iteration of the loop over i: major is compared first, then minor.
detectKeyStep_batch(counts, i, best) ==
    LET major == majorCorr_batch(counts, i)
        minor == minorCorr_batch(counts, i)
        afterMajor ==
            IF exceedsBest(major, best.bestCorr)
            THEN [bestCorr |-> major, bestKey |-> keyLabel_batch(i)]
            ELSE best
    IN  IF exceedsBest(minor, afterMajor.bestCorr)
        THEN [bestCorr |-> minor, bestKey |-> keyLabel_batch(i) \o "m"]
        ELSE afterMajor

----------------------------------------------------------------------------
(* The key-estimation specification: an input is drawn, detectKey runs     *)
(* one loop iteration per step.                                            *)

MaxKeyWeight == 2    \* largest bin value, largest note duration in half seconds

\* Histograms with energy on no, one or two pitch classes, and the flat ones.
KeyHistograms ==
    { Tabulate(12, LAMBDA i : IF i \in DOMAIN w THEN w[i] ELSE 0) :
        w \in UNION { [S -> 1 .. MaxKeyWeight] :
                        S \in { T \in SUBSET (1 .. 12) : Cardinality(T) <= 2 } } }
    \cup { Tabulate(12, LAMBDA i : v) : v \in 1 .. MaxKeyWeight }

\* Note names of the drawn melodies: the twelve names the segmenter emits in
\* octave 4, and one name the pattern of detectKey does not match.
KeyNoteNames ==
    { At0(noteNames, pc) \o <<"4">> : pc \in 0 .. 11 } \cup { <<"C", "4">> }

KeyNote ==
    [note : KeyNoteNames, time : {Whole(0)},
     duration : {undefined} \cup { Frac(n, 2) : n \in 1 .. MaxKeyWeight },
     velocity : {Frac(1, 2)}]

\* One note on every pitch class, all of the same weight.
FlatMelody ==
    Tabulate(12, LAMBDA pc :
        [note |-> noteNames[pc] \o <<"4">>, time |-> Whole(0),
         duration |-> Whole(1), velocity |-> undefined])

\* Melodies of no, one or two notes, and the flat one.
KeyMelodies ==
    UNION { [1 .. n -> KeyNote] : n \in 0 .. 2 } \cup {FlatMelody}

InitKey ==
    /\ IdleButKey
    /\ keyPc = "input"
    /\ chromaCounts = <<>>
    /\ shift = 0
    /\ bestKey = ""
    /\ bestCorr = MinusInfinity
    /\ detectedKey = ""
    /\ \/ /\ keyPath = "single"
          /\ pitchClassHistogram \in KeyHistograms
          /\ keyNotes = <<>>
       \/ /\ keyPath = "batch"
          /\ pitchClassHistogram = ZeroHistogram
          /\ keyNotes \in KeyMelodies

\* detectKey(pitchClassHistogram) is entered: bestKey = "C",
\* bestCorr = -Infinity, shift = 0.
DetectKeyEnter ==
    /\ UNCHANGED notKeyVars
    /\ keyPc = "input"
    /\ keyPath = "single"
    /\ bestKey' = "C"
    /\ bestCorr' = MinusInfinity
    /\ shift' = 0
    /\ keyPc' = "loop"
    /\ UNCHANGED <<keyPath, pitchClassHistogram, keyNotes, chromaCounts,
                   detectedKey>>

\* One iteration of for (let shift = 0; shift < 12; shift++).
DetectKeyIterate ==
    /\ UNCHANGED notKeyVars
    /\ keyPc = "loop"
    /\ keyPath = "single"
    /\ shift < 12
    /\ LET next == detectKeyStep(pitchClassHistogram, shift,
                                 [bestCorr |-> bestCorr, bestKey |-> bestKey])
       IN  /\ bestKey' = next.bestKey
           /\ bestCorr' = next.bestCorr
    /\ shift' = shift + 1
    /\ UNCHANGED <<keyPath, pitchClassHistogram, keyNotes, chromaCounts,
                   detectedKey, keyPc>>

\* detectKey(notes) of the batch page is entered: chromaCounts is filled,
\* bestKey = "C", bestCorrelation = -Infinity, i = 0.
DetectKeyEnter_batch ==
    /\ UNCHANGED notKeyVars
    /\ keyPc = "input"
    /\ keyPath = "batch"
    /\ chromaCounts' = fillChromaCounts(keyNotes)
    /\ bestKey' = "C"
    /\ bestCorr' = MinusInfinity
    /\ shift' = 0
    /\ keyPc' = "loop"
    /\ UNCHANGED <<keyPath, pitchClassHistogram, keyNotes, detectedKey>>

\* One iteration of for (let i = 0; i < 12; i++).
DetectKeyIterate_batch ==
    /\ UNCHANGED notKeyVars
    /\ keyPc = "loop"
    /\ keyPath = "batch"
    /\ shift < 12
    /\ LET next == detectKeyStep_batch(chromaCounts, shift,
                                       [bestCorr |-> bestCorr, bestKey |-> bestKey])
       IN  /\ bestKey' = next.bestKey
           /\ bestCorr' = next.bestCorr
    /\ shift' = shift + 1
    /\ UNCHANGED <<keyPath, pitchClassHistogram, keyNotes, chromaCounts,
                   detectedKey, keyPc>>

\* return bestKey, on either page.
DetectKeyReturn ==
    /\ UNCHANGED notKeyVars
    /\ keyPc = "loop"
    /\ shift >= 12
    /\ detectedKey' = bestKey
    /\ keyPc' = "done"
    /\ UNCHANGED <<keyPath, pitchClassHistogram, keyNotes, chromaCounts, shift,
                   bestKey, bestCorr>>

NextKey ==
    \/ DetectKeyEnter
    \/ DetectKeyIterate
    \/ DetectKeyEnter_batch
    \/ DetectKeyIterate_batch
    \/ DetectKeyReturn

SpecKey == InitKey /\ [][NextKey]_vars

----------------------------------------------------------------------------
(* Claims about key estimation.                                            *)

\* The histogram the correlation of the run is taken against.
KeyInputHistogram ==
    IF keyPath = "single"
    THEN Tabulate(12, LAMBDA bin : Whole(pitchClassHistogram[bin]))
    ELSE fillChromaCounts(keyNotes)

SingleClassEnergy(hist, p) ==
    /\ FracLt(Whole(0), At0(hist, p))
    /\ \A q \in 0 .. 11 : q # p => At0(hist, q) = Whole(0)

\* C3: for each candidate tonic the profiles are rotated to that tonic, so a
\* histogram whose whole energy lies on one pitch class p yields the major
\* key named after p, on the single-file page and on the batch page.
C3_KeyNamedAfterTonic ==
    keyPc = "done" =>
        \A p \in 0 .. 11 :
            SingleClassEnergy(KeyInputHistogram, p)
                => detectedKey = At0(keyNoteNames, p)

\* The 24 candidates in evaluation order: tonic 0..11, major before minor.
CandidateCorrs ==
    LET counts == fillChromaCounts(keyNotes)
    IN  Tabulate(24, LAMBDA c :
            IF keyPath = "single"
            THEN IF (c - 1) % 2 = 0
                 THEN majorCorr(pitchClassHistogram, (c - 1) \div 2)
                 ELSE minorCorr(pitchClassHistogram, (c - 1) \div 2)
            ELSE IF (c - 1) % 2 = 0
                 THEN majorCorr_batch(counts, (c - 1) \div 2)
                 ELSE minorCorr_batch(counts, (c - 1) \div 2))

CandidateLabel(c) ==
    At0(keyNoteNames, c \div 2) \o (IF c % 2 = 0 THEN "" ELSE "m")

BestCandidates(corrs) ==
    { c \in 0 .. 23 : \A d \in 0 .. 23 : FracLe(At0(corrs, d), At0(corrs, c)) }

FirstOf(set) == CHOOSE c \in set : \A d \in set : c <= d

\* C4: among candidates that tie for the best score the one evaluated first
\* (tonic 0..11, major before minor) is returned; an all-zero histogram or
\* an empty note list returns "C".
C4_FirstBestCandidateWins ==
    keyPc = "done" =>
        /\ detectedKey = CandidateLabel(FirstOf(BestCandidates(CandidateCorrs)))
        /\ (\A q \in 0 .. 11 : At0(KeyInputHistogram, q) = Whole(0))
               => detectedKey = "C"

\* A run on a histogram with energy in which several candidates tie for the
\* best score.
C4_TieWitness ==
    /\ keyPc = "done"
    /\ \E q \in 0 .. 11 : At0(KeyInputHistogram, q) # Whole(0)
    /\ Cardinality(BestCandidates(CandidateCorrs)) >= 2

----------------------------------------------------------------------------
(* Quantization: quantizeNotes(notes, tempo, quantizeValue).               *)

\* quantizeMap[quantizeValue]; undefined for a key the map does not hold.
quantizeMap(value) ==
    CASE value = "1/4" -> Whole(1)
      [] value = "1/8" -> Frac(1, 2)
      [] value = "1/16" -> Frac(1, 4)
      [] value = "1/32" -> Frac(1, 8)
      [] OTHER -> undefined

\* gridSize = beatDuration * (quantizeMap[quantizeValue] || 0.25)
gridSize(tempo, value) ==
    FracMul(FracDiv(Whole(60), Whole(tempo)),
            orElse(quantizeMap(value), Frac(1, 4)))

\* A snap that forgets to scale the grid index back to seconds.
snapToGrid_index(x, grid) == Whole(FracRound(FracDiv(x, grid)))

\* Math.round(x / gridSize) * gridSize
snapToGrid(x, grid) == FracMul(Whole(FracRound(FracDiv(x, grid))), grid)

\* A duration snap without the floor of one grid unit.
quantizeDuration_noFloor(duration, grid) ==
    IF truthy(duration) THEN snapToGrid(duration, grid) ELSE undefined

\* note.duration ? Math.max(gridSize, Math.round(...) * gridSize) : undefined
quantizeDuration(duration, grid) ==
    IF truthy(duration)
    THEN FracMax(grid, snapToGrid(duration, grid))
    ELSE undefined

quantizeNotes(notes, tempo, value) ==
    IF value = "none" THEN notes
    ELSE LET grid == gridSize(tempo, value)
         IN  Tabulate(Len(notes), LAMBDA k :
                 [note |-> notes[k].note,
                  velocity |-> notes[k].velocity,
                  time |-> snapToGrid(notes[k].time, grid),
                  duration |-> quantizeDuration(notes[k].duration, grid)])

MaxQuantTicks == 4     \* onsets and durations up to this many 1/16 s

QUANTIZE_VALUES == {"1/4", "1/8", "1/16", "1/32", "none"}

\* Tempi: the default, and two others inside the range detectTempo returns.
QuantTempos == {90, 120, 200}

QuantNote ==
    [note : {<<"c", "4">>, <<"e", "4">>},
     time : { Frac(n, 16) : n \in 0 .. MaxQuantTicks },
     duration : {undefined} \cup { Frac(n, 16) : n \in 0 .. MaxQuantTicks },
     velocity : {undefined, Frac(1, 2)}]

\* Melodies of up to two notes, in onset order as the segmenter emits them;
\* the second note of a two-note melody is the softer one.
QuantMelodies ==
    {<<>>} \cup { <<n>> : n \in QuantNote }
    \cup { <<m, n>> : m \in { x \in QuantNote : x.velocity = undefined },
                      n \in { x \in QuantNote : x.velocity # undefined
                                                /\ x.note = <<"e", "4">> } }

InitQuant ==
    /\ IdleButQuant
    /\ quantizeInput \in { m \in QuantMelodies :
                             Len(m) = 2 => FracLe(m[1].time, m[2].time) }
    /\ quantizeTempo \in QuantTempos
    /\ quantizeValue \in QUANTIZE_VALUES
    /\ quantized = <<>>
    /\ requantized = <<>>
    /\ quantPc = "input"

\* melody = quantizeNotes(rawMelody, estimatedTempo, quantizeValue)
QuantizeOnce ==
    /\ UNCHANGED notQuantVars
    /\ quantPc = "input"
    /\ quantized' = quantizeNotes(quantizeInput, quantizeTempo, quantizeValue)
    /\ quantPc' = "once"
    /\ UNCHANGED <<quantizeInput, quantizeTempo, quantizeValue, requantized>>

\* The result is quantized again with the same tempo and grid value.
QuantizeAgain ==
    /\ UNCHANGED notQuantVars
    /\ quantPc = "once"
    /\ requantized' = quantizeNotes(quantized, quantizeTempo, quantizeValue)
    /\ quantPc' = "twice"
    /\ UNCHANGED <<quantizeInput, quantizeTempo, quantizeValue, quantized>>

NextQuant == QuantizeOnce \/ QuantizeAgain

SpecQuant == InitQuant /\ [][NextQuant]_vars

----------------------------------------------------------------------------
(* Claims about quantization.                                              *)

GridValues == {"1/4", "1/8", "1/16", "1/32"}

\* C5: quantizing an already quantized melody again with the same tempo and
\* grid value returns it note for note: onset, duration, pitch and velocity.
C5_QuantizeIdempotent ==
    (quantPc = "twice" /\ quantizeValue \in GridValues)
        => requantized = quantized

\* A second pass over a melody of two notes that the first pass changed.
C5_RequantizedWitness ==
    /\ quantPc = "twice"
    /\ quantizeValue \in GridValues
    /\ Len(quantizeInput) = 2
    /\ \A k \in 1 .. 2 :
           /\ quantized[k].time # quantizeInput[k].time
           /\ truthy(quantizeInput[k].duration)
           /\ quantized[k].duration # quantizeInput[k].duration

IsMultipleOf(x, grid) == FracDiv(x, grid)[2] = 1

\* Every output onset is a whole multiple of gridSize at most half a
\* gridSize from the input onset; every output duration of a note with a
\* positive input duration is a whole multiple of gridSize and at least one
\* gridSize; pitch, velocity, number and order of the notes are those of the
\* input.
SnappedToGrid ==
    (quantPc \in {"once", "twice"} /\ quantizeValue \in GridValues) =>
        LET grid == gridSize(quantizeTempo, quantizeValue)
        IN  /\ Len(quantized) = Len(quantizeInput)
            /\ \A k \in 1 .. Len(quantizeInput) :
                   LET in == quantizeInput[k]
                       out == quantized[k]
                   IN  /\ out.note = in.note
                       /\ out.velocity = in.velocity
                       /\ IsMultipleOf(out.time, grid)
                       /\ FracLe(FracAbs(FracSub(out.time, in.time)),
                                 FracDiv(grid, Whole(2)))
                       /\ truthy(in.duration) =>
                              /\ out.duration # undefined
                              /\ IsMultipleOf(out.duration, grid)
                              /\ FracLe(grid, out.duration)

\* C6: every state of a quantization satisfies SnappedToGrid, and no step
\* changes the notes that were passed in.
C6_QuantizeSnaps ==
    []SnappedToGrid /\ [][quantizeInput' = quantizeInput]_vars

\* A quantized melody with an onset exactly half a grid unit from a grid
\* line and a duration shorter than half a grid unit.
C6_SnapWitness ==
    /\ quantPc = "once"
    /\ quantizeValue \in GridValues
    /\ \E k \in 1 .. Len(quantizeInput) :
           LET grid == gridSize(quantizeTempo, quantizeValue)
               in == quantizeInput[k]
           IN  /\ FracAbs(FracSub(quantized[k].time, in.time))
                      = FracDiv(grid, Whole(2))
               /\ truthy(in.duration)
               /\ FracLt(in.duration, FracDiv(grid, Whole(2)))
               /\ quantized[k].duration = grid

----------------------------------------------------------------------------
(* The notation generator: generateStrudelCode of both pages.  A text is a *)
(* string; a note name and a time signature are character sequences.       *)

\* The decimal text of a natural number, as a template literal prints it.
RECURSIVE toString(_)
toString(n) ==
    IF n < 10 THEN DigitChar(n) ELSE toString(n \div 10) \o DigitChar(n % 10)

StartsWith(text, prefix) ==
    Len(text) >= Len(prefix) /\ SubSeq(text, 1, Len(prefix)) = prefix

EndsWith(text, suffix) ==
    /\ Len(text) >= Len(suffix)
    /\ SubSeq(text, Len(text) - Len(suffix) + 1, Len(text)) = suffix

Contains(text, part) ==
    \E i \in 1 .. (Len(text) - Len(part) + 1) :
        SubSeq(text, i, i + Len(part) - 1) = part

\* String.prototype.split for a one-character separator.
RECURSIVE split(_, _)
split(chars, sep) ==
    LET at == indexOf(chars, sep)
    IN  IF at < 0 THEN <<chars>>
        ELSE <<SubSeq(chars, 1, at)>>
                 \o split(SubSeq(chars, at + 2, Len(chars)), sep)

\* note.match(/^([A-Ga-g])([#b]?)(\d+)$/): <<noteName, accidental, octave>>
\* of the match, or <<>>.
matchNoteAccidentalOctave(chars) ==
    IF chars = <<>> \/ chars[1] \notin (LowerLetters \cup UpperLetters)
    THEN <<>>
    ELSE LET hasAccidental == Len(chars) >= 2 /\ chars[2] \in {"#", "b"}
             accidental == IF hasAccidental THEN chars[2] ELSE ""
             octave == SubSeq(chars, IF hasAccidental THEN 3 ELSE 2, Len(chars))
         IN  IF Len(octave) >= 1 /\ PrefixIn(octave, DigitChars) = Len(octave)
             THEN <<chars[1], accidental, octave>>
             ELSE <<>>

formatNoteForStrudel(note) ==
    LET match == matchNoteAccidentalOctave(note)
    IN  IF match = <<>>
        THEN Text(Tabulate(Len(note), LAMBDA k : toLowerCase(note[k])))
        ELSE toLowerCase(match[1])
                 \o (IF match[2] = "#" THEN "s"
                     ELSE IF match[2] = "b" THEN "f" ELSE "")
                 \o Text(match[3])

\* beatDuration = (60 / tempo) * (4 / noteValue), noteValue the number after
\* the slash of the time signature.
beatDuration(tempo, timeSignature) ==
    LET noteValue == parseInt(split(timeSignature, "/")[2])
    IN  FracMul(FracDiv(Whole(60), Whole(tempo)),
                FracDiv(Whole(4), Whole(noteValue)))

\* Bands a quarter of a beat wide on either side.
durationSuffix_wide(durationBeats) ==
    LET near(b) ==
            FracLt(FracAbs(FracSub(durationBeats, b)), Frac(1, 4))
    IN  IF near(Frac(1, 2)) THEN "*0.5"
        ELSE IF near(Whole(1)) THEN ""
        ELSE IF near(Whole(2)) THEN "*2"
        ELSE IF near(Whole(4)) THEN "*4"
        ELSE ""

\* The four tests on durationBeats, in the order of the source.
durationSuffix(durationBeats) ==
    LET near(b) ==
            FracLt(FracAbs(FracSub(durationBeats, b)), Frac(1, 10))
    IN  IF near(Frac(1, 2)) THEN "*0.5"
        ELSE IF near(Whole(1)) THEN ""
        ELSE IF near(Whole(2)) THEN "*2"
        ELSE IF near(Whole(4)) THEN "*4"
        ELSE ""

\* The token of a note or chord: if (!duration) return formatted; then the
\* four tests.
withDuration(formatted, duration, beat) ==
    IF ~truthy(duration) THEN formatted
    ELSE formatted \o durationSuffix(FracDiv(duration, beat))

melodyWithDuration(notes, beat) ==
    join(Tabulate(Len(notes), LAMBDA k :
             withDuration(formatNoteForStrudel(notes[k].note),
                          notes[k].duration, beat)),
         " ")

chordWithDuration(chordList, beat) ==
    join(Tabulate(Len(chordList), LAMBDA k :
             withDuration(
                 "[" \o join(Tabulate(Len(chordList[k].notes), LAMBDA n :
                                 formatNoteForStrudel(chordList[k].notes[n])),
                             ",") \o "]",
                 chordList[k].duration, beat)),
         " ")

\* A pattern that is quoted whether or not there is anything in it.
patternOrRest_quoted(nonEmpty, pattern) ==
    "note(\"" \o pattern \o "\").sound(\"piano\")"

\* nonEmpty ? `note("${pattern}").sound("piano")` : `note("~").sound("piano")`
patternOrRest(nonEmpty, pattern) ==
    IF nonEmpty
    THEN "note(\"" \o pattern \o "\").sound(\"piano\")"
    ELSE "note(\"~\").sound(\"piano\")"

\* generateStrudelCode of the single-file page.
generateStrudelCode(notes, chordList, tempo, timeSignature) ==
    LET beat == beatDuration(tempo, timeSignature)
        melodyStrudel ==
            patternOrRest(Len(notes) > 0, melodyWithDuration(notes, beat))
        chordStrudel ==
            patternOrRest(Len(chordList) > 0, chordWithDuration(chordList, beat))
    IN  [melody |-> melodyStrudel,
         chords |-> chordStrudel,
         combined |->
             "// Tempo: " \o toString(tempo) \o " BPM, Time Signature: "
                 \o Text(timeSignature) \o "\n"
             \o "// Melody: " \o toString(Len(notes)) \o " notes, Chords: "
                 \o toString(Len(chordList)) \o " chords\n"
             \o "stack(\n  " \o melodyStrudel \o ",\n  " \o chordStrudel
             \o "\n).cpm(" \o toString(FracRound(Frac(tempo, 4))) \o ")"]

\* generateStrudelCode of the batch page: the joined text decides between
\* pattern and rest, and the combined text has one comment line.
generateStrudelCode_batch(notes, chordList, tempo, timeSignature) ==
    LET beat == beatDuration(tempo, timeSignature)
        melodyText == melodyWithDuration(notes, beat)
        chordText == chordWithDuration(chordList, beat)
        melodyCode == patternOrRest(melodyText # "", melodyText)
        chordCode == patternOrRest(chordText # "", chordText)
    IN  [melody |-> melodyCode,
         chords |-> chordCode,
         combined |->
             "// Tempo: " \o toString(tempo) \o " BPM, Time Signature: "
                 \o Text(timeSignature) \o "\n"
             \o "stack(\n  " \o melodyCode \o ",\n  " \o chordCode
             \o "\n).cpm(" \o toString(FracRound(Frac(tempo, 4))) \o ")"]

----------------------------------------------------------------------------
(* The analysis entry points: analyzeAudio of the single-file page, the    *)
(* regeneration of its notation after an edit, and analyzeAudioFile of the *)
(* batch page.  What the signal-level functions return for the audio       *)
(* (detected tempo, segmented notes, chords) is drawn as input.            *)

MaxDurationTicks == 20   \* note durations up to this many 1/20 s
MaxEdits == 1            \* edits made in the note editor

TIME_SIGNATURES ==
    { <<"4", "/", "4">>, <<"3", "/", "4">>, <<"6", "/", "8">>,
      <<"2", "/", "4">>, <<"5", "/", "4">>, <<"7", "/", "8">> }

\* The default of the page, and a time signature counted in eighths.
AnalysisTimeSignatures ==
    { ts \in TIME_SIGNATURES : ts[1] \in {"4", "6"} }

AnalysisParams ==
    [autoDetectTempo : BOOLEAN, targetTempo : {90},
     timeSignature : AnalysisTimeSignatures,
     quantizeNotes : BOOLEAN, quantizeValue : {"1/16"}]

\* Notes as the segmenter names them (c4, cs4) and as the editor names
\* them (C#4, Bb3).
AnalysisNote ==
    [note : {<<"c", "4">>}, time : {Whole(0)},
     duration : {undefined} \cup { Frac(n, 20) : n \in 0 .. MaxDurationTicks },
     velocity : {Frac(4, 5)}]
    \cup
    [note : {<<"c", "s", "4">>, <<"C", "#", "4">>, <<"B", "b", "3">>},
     time : {Whole(0)}, duration : {undefined, Frac(1, 2)},
     velocity : {Frac(4, 5)}]

\* Three notes of half a second each: one beat each at 120 BPM in 4/4.
ThreeBeats ==
    Tabulate(3, LAMBDA k :
        [note |-> <<"c", "4">>, time |-> Frac(k - 1, 2),
         duration |-> Frac(1, 2), velocity |-> Frac(4, 5)])

AnalysisMelodies ==
    {<<>>, ThreeBeats} \cup { <<n>> : n \in AnalysisNote }
    \cup { <<m, [note |-> n.note, time |-> Whole(1),
                 duration |-> n.duration, velocity |-> n.velocity]>> :
             m \in AnalysisNote,
             n \in { x \in AnalysisNote : x.note # <<"c", "4">> } }

Chord(notes, name, time, duration) ==
    [notes |-> notes, name |-> name, time |-> time, duration |-> duration]

AnalysisChords ==
    { <<>>,
      << Chord(<< <<"c", "4">>, <<"e", "4">>, <<"g", "4">> >>, "C",
               Whole(0), undefined) >>,
      << Chord(<< <<"c", "4">>, <<"e", "4">>, <<"g", "4">> >>, "C",
               Whole(0), Whole(1)),
         Chord(<< <<"G", "3">>, <<"B", "3">>, <<"D", "4">> >>, "G",
               Whole(1), Frac(1, 2)) >> }

InitAnalysis ==
    /\ IdleButAnalysis
    /\ entry \in {"single", "batch"}
    /\ analysisParams \in AnalysisParams
    /\ detectedTempo = 120
    /\ rawMelody \in AnalysisMelodies
    /\ chords \in AnalysisChords
    /\ melody = <<>>
    /\ estimatedTempo = 0
    /\ passedTempo = 0
    /\ passedTimeSignature = <<>>
    /\ strudelCode = <<>>
    /\ edits = 0
    /\ analysisPc = "input"

\* analyzeAudio of the single-file page, from the tempo to setResult.
AnalyzeAudio ==
    /\ UNCHANGED notAnalysisVars
    /\ analysisPc = "input"
    /\ entry = "single"
    /\ LET tempo == IF analysisParams.autoDetectTempo
                    THEN detectedTempo ELSE analysisParams.targetTempo
           notes == IF analysisParams.quantizeNotes
                    THEN quantizeNotes(rawMelody, tempo,
                                       analysisParams.quantizeValue)
                    ELSE rawMelody
       IN  /\ estimatedTempo' = tempo
           /\ melody' = notes
           /\ passedTempo' = tempo
           /\ passedTimeSignature' = analysisParams.timeSignature
           /\ strudelCode' = generateStrudelCode(notes, chords, tempo,
                                                 analysisParams.timeSignature)
    /\ analysisPc' = "done"
    /\ UNCHANGED <<entry, analysisParams, detectedTempo, rawMelody, chords,
                   edits>>

\* The editor's deleteNote(index): melody.filter((_, i) => i !== index).
deleteNote(notes, index) ==
    SubSeq(notes, 1, index) \o SubSeq(notes, index + 2, Len(notes))

\* The editor's addNote: a copy of the last note's name, or C4, a quarter of
\* a second long.
addNote(notes) ==
    LET lastNote == IF notes = <<>> THEN undefined ELSE notes[Len(notes)]
    IN  Append(notes,
            [note |-> IF lastNote = undefined THEN <<"C", "4">>
                      ELSE lastNote.note,
             time |-> IF lastNote = undefined THEN Frac(1, 4)
                      ELSE FracAdd(orElse(lastNote.time, Whole(0)),
                                   orElse(lastNote.duration, Frac(1, 4))),
             duration |-> Frac(1, 4),
             velocity |-> Frac(4, 5)])

\* handleMelodyChange(newMelody) after an edit in the note editor, and the
\* recomputation of currentStrudelCode that follows it.
HandleMelodyChange ==
    /\ UNCHANGED notAnalysisVars
    /\ analysisPc = "done"
    /\ entry = "single"
    /\ edits < MaxEdits
    /\ \E newMelody \in { deleteNote(melody, i) : i \in Range0(melody) }
                            \cup { addNote(melody) } :
           LET tempo == IF estimatedTempo # 0 THEN estimatedTempo ELSE 120
           IN  /\ melody' = newMelody
               /\ passedTempo' = tempo
               /\ passedTimeSignature' = analysisParams.timeSignature
               /\ strudelCode' =
                      generateStrudelCode(newMelody, chords, tempo,
                                          analysisParams.timeSignature)
    /\ edits' = edits + 1
    /\ UNCHANGED <<entry, analysisParams, detectedTempo, rawMelody, chords,
                   estimatedTempo, analysisPc>>

\* analyzeAudioFile of the batch page, from the tempo to the returned
\* object: generateStrudelCode(notes, chords) takes its default tempo and
\* time signature.
AnalyzeAudioFile ==
    /\ UNCHANGED notAnalysisVars
    /\ analysisPc = "input"
    /\ entry = "batch"
    /\ estimatedTempo' = IF analysisParams.autoDetectTempo
                         THEN detectedTempo ELSE analysisParams.targetTempo
    /\ melody' = rawMelody
    /\ passedTempo' = 120
    /\ passedTimeSignature' = <<"4", "/", "4">>
    /\ strudelCode' = generateStrudelCode_batch(rawMelody, chords, 120,
                                                <<"4", "/", "4">>)
    /\ analysisPc' = "done"
    /\ UNCHANGED <<entry, analysisParams, detectedTempo, rawMelody, chords,
                   edits>>

NextAnalysis == AnalyzeAudio \/ HandleMelodyChange \/ AnalyzeAudioFile

SpecAnalysis == InitAnalysis /\ [][NextAnalysis]_vars

----------------------------------------------------------------------------
(* Claims about the notation generator and the analysis entry points.      *)

\* b = duration / beatDuration for beatDuration = (60/tempo) * (4/denominator)
DurationBeats(duration, tempo, timeSignature) ==
    LET denominator ==
            parseInt(SubSeq(timeSignature, indexOf(timeSignature, "/") + 2,
                            Len(timeSignature)))
    IN  FracDiv(duration, Frac(60 * 4, tempo * denominator))

InBand(b, centre) == FracLt(FracAbs(FracSub(b, centre)), Frac(1, 10))

\* The suffix the banding rule gives a token, and "none" when more than one
\* band applies.
BandSuffix(duration, tempo, timeSignature) ==
    IF ~truthy(duration) THEN ""
    ELSE LET b == DurationBeats(duration, tempo, timeSignature)
             bands == { c \in {Frac(1, 2), Whole(1), Whole(2), Whole(4)} :
                          InBand(b, c) }
         IN  IF Cardinality(bands) > 1 THEN "none"
             ELSE IF bands = {Frac(1, 2)} THEN "*0.5"
             ELSE IF bands = {Whole(2)} THEN "*2"
             ELSE IF bands = {Whole(4)} THEN "*4"
             ELSE ""

Quoted(pattern) == "note(\"" \o pattern \o "\").sound(\"piano\")"

BandedMelody(notes, tempo, timeSignature) ==
    join(Tabulate(Len(notes), LAMBDA k :
             formatNoteForStrudel(notes[k].note)
                 \o BandSuffix(notes[k].duration, tempo, timeSignature)),
         " ")

BandedChords(chordList, tempo, timeSignature) ==
    join(Tabulate(Len(chordList), LAMBDA k :
             "[" \o join(Tabulate(Len(chordList[k].notes), LAMBDA n :
                             formatNoteForStrudel(chordList[k].notes[n])),
                         ",") \o "]"
                 \o BandSuffix(chordList[k].duration, tempo, timeSignature)),
         " ")

\* C7: with b the duration in beats of the tempo and time signature the
\* generator was given, a note or chord token carries *0.5, nothing, *2 or
\* *4 as b is within 0.1 of 0.5, 1, 2 or 4, and nothing when b is in no
\* band; at most one band applies; three notes of one beat each at 120 BPM
\* in 4/4 give three tokens without a suffix.
C7_DurationBanding ==
    analysisPc = "done" =>
        /\ melody # <<>> =>
               strudelCode.melody =
                   Quoted(BandedMelody(melody, passedTempo, passedTimeSignature))
        /\ chords # <<>> =>
               strudelCode.chords =
                   Quoted(BandedChords(chords, passedTempo, passedTimeSignature))
        /\ (melody = ThreeBeats /\ passedTempo = 120
                /\ passedTimeSignature = <<"4", "/", "4">>)
               => strudelCode.melody = Quoted("c4 c4 c4")

\* The three one-beat notes at 120 BPM in 4/4, over chords of two beats and
\* of one beat.
C7_BandsWitness ==
    /\ analysisPc = "done"
    /\ melody = ThreeBeats
    /\ passedTempo = 120
    /\ passedTimeSignature = <<"4", "/", "4">>
    /\ strudelCode.melody = Quoted("c4 c4 c4")
    /\ strudelCode.chords = Quoted("[c4,e4,g4]*2 [g3,b3,d4]")

RestPattern == "note(\"~\").sound(\"piano\")"

\* C8: an empty melody gives the melody text note("~").sound("piano"), an
\* empty chord list gives the same chord text, the combined text is a
\* stack( ) of the two patterns followed by .cpm( ), and none of the three
\* texts is empty or holds an empty quoted pattern; on both pages.
C8_EmptyInputIsRest ==
    analysisPc = "done" =>
        /\ melody = <<>> => strudelCode.melody = RestPattern
        /\ chords = <<>> => strudelCode.chords = RestPattern
        /\ EndsWith(strudelCode.combined,
                    "stack(\n  " \o strudelCode.melody \o ",\n  "
                        \o strudelCode.chords \o "\n).cpm("
                        \o toString(FracRound(Frac(passedTempo, 4))) \o ")")
        /\ \A text \in {strudelCode.melody, strudelCode.chords,
                        strudelCode.combined} :
               text # "" /\ ~Contains(text, "\"\"")

\* A notation generated from no notes and no chords.
C8_EmptyWitness ==
    /\ analysisPc = "done"
    /\ melody = <<>>
    /\ chords = <<>>
    /\ strudelCode.melody = RestPattern
    /\ strudelCode.chords = RestPattern

\* C9: on every entry point the comment header of the combined text restates
\* the tempo the analysis reports as estimatedTempo and the configured time
\* signature, the cycles-per-minute annotation is round(estimatedTempo / 4),
\* and the duration multipliers are those of that tempo and time signature.
C9_NotationOfOwnTempo ==
    analysisPc = "done" =>
        /\ StartsWith(strudelCode.combined,
                      "// Tempo: " \o toString(estimatedTempo)
                          \o " BPM, Time Signature: "
                          \o Text(analysisParams.timeSignature) \o "\n")
        /\ EndsWith(strudelCode.combined,
                    ").cpm(" \o toString(FracRound(Frac(estimatedTempo, 4)))
                        \o ")")
        /\ melody # <<>> =>
               strudelCode.melody =
                   Quoted(BandedMelody(melody, estimatedTempo,
                                       analysisParams.timeSignature))

----------------------------------------------------------------------------
(* Tempo estimation.  The energies of the frames (single-file page) or of  *)
(* the windows (batch page) are the input; the sample rate is 44100 Hz.    *)

sampleRate == 44100

\* Batch page: windowSize = Math.floor(sampleRate * 0.05)
windowSize == FracFloor(FracMul(Whole(sampleRate), Frac(1, 20)))

\* Batch page: energyValues[i] > energyValues[i - 1] * 1.5
\*             && energyValues[i] > 0.01
isOnset(values, i) ==
    /\ FracLt(FracMul(At0(values, i - 1), Frac(3, 2)), At0(values, i))
    /\ FracLt(Frac(1, 100), At0(values, i))

\* Batch page: the onset times i * windowSize / sampleRate, i ascending.
findOnsets(values) ==
    LET at == SelectSeq(Tabulate(Len(values) - 1, LAMBDA i : i),
                        LAMBDA i : isOnset(values, i))
    IN  Tabulate(Len(at), LAMBDA k : Frac(at[k] * windowSize, sampleRate))

\* Batch page: intervals, avgInterval, and tempo = 60 / avgInterval.
tempoOfOnsets(times) ==
    LET intervals == Tabulate(Len(times) - 1, LAMBDA i :
                         FracSub(times[i + 1], times[i]))
        avgInterval == FracDiv(FracSum(intervals), Whole(Len(intervals)))
    IN  FracDiv(Whole(60), avgInterval)

\* A halving loop that never runs.
aboveRange_never(t) == FALSE

\* Batch page: the conditions of the two while loops.
aboveRange(t) == FracLt(Whole(200), t)

belowRange(t) == FracLt(t, Whole(60))

\* Single-file page: onsetStrength[i - 1] = Math.max(0, energies[i] -
\* energies[i - 1]) for i = 1 .. energies.length - 1.
onsetStrengthOf(values) ==
    Tabulate(Len(values) - 1, LAMBDA i :
        FracMax(Whole(0), FracSub(values[i + 1], values[i])))

minBpm == 60
maxBpm == 200
hopSize == 512

\* Single-file page: beatInterval = (60 / bpm) * framesPerSecond, in frames.
beatInterval(candidate) == Frac(60 * sampleRate, candidate * hopSize)

\* Single-file page: tempScore of one offset, the sum of
\* onsetStrength[Math.floor(beat)] over beat = offset, offset + beatInterval,
\* ... below onsetStrength.length.
RECURSIVE tempScoreFrom(_, _, _, _)
tempScoreFrom(strength, interval, offset, k) ==
    IF offset * interval[2] + k * interval[1] >= Len(strength) * interval[2]
    THEN Whole(0)
    ELSE FracAdd(
             At0(strength,
                 (offset * interval[2] + k * interval[1]) \div interval[2]),
             tempScoreFrom(strength, interval, offset, k + 1))

\* Single-file page: score of a candidate, the maximum of 0 and of
\* tempScore over the offsets 0, 1, ... below beatInterval.  An offset at
\* or beyond onsetStrength.length has tempScore 0.
scoreOf(strength, candidate) ==
    LET interval == beatInterval(candidate)
        tempScores ==
            { tempScoreFrom(strength, interval, offset, 0) :
                offset \in { o \in Range0(strength) :
                               o * interval[2] < interval[1] } }
            \cup {Whole(0)}
    IN  CHOOSE score \in tempScores :
            \A other \in tempScores : FracLe(other, score)

MaxLevels == 4     \* an energy contour has up to this many levels
MaxHold == 12      \* and holds each level for up to this many frames

\* Energies: silence, below the onset threshold of the batch page, above
\* it, and one and a half times that.
EnergyLevels == {Whole(0), Frac(1, 200), Frac(1, 50), Frac(3, 100)}

Contours(levels) == UNION { [1 .. n -> levels] : n \in 1 .. MaxLevels }

\* The energies of a contour whose every level lasts hold frames.
Stretch(contour, hold) ==
    Tabulate(Len(contour) * hold, LAMBDA i : contour[((i - 1) \div hold) + 1])

InitTempo ==
    /\ IdleButTempo
    /\ \/ /\ tempoPath = "batch"
          /\ \E contour \in Contours(EnergyLevels), hold \in 1 .. MaxHold :
                 energies = Stretch(contour, hold)
       \/ /\ tempoPath = "single"
          /\ \E contour \in Contours({Whole(0), Frac(1, 50)}),
                hold \in {1, MaxHold} :
                 energies = Stretch(contour, hold)
    /\ onsets = <<>>
    /\ tempo_batch = <<>>
    /\ bpm = 0
    /\ bestBpm = 0
    /\ bestScore = <<>>
    /\ detectedBpm = 0
    /\ tempoPc = "input"

\* Batch detectTempo up to the first loop: the onsets are found; fewer than
\* two of them return 120.
DetectTempoEnter_batch ==
    /\ UNCHANGED notTempoVars
    /\ tempoPc = "input"
    /\ tempoPath = "batch"
    /\ LET times == findOnsets(energies)
       IN  /\ onsets' = times
           /\ IF Len(times) < 2
              THEN /\ detectedBpm' = 120
                   /\ tempoPc' = "done"
                   /\ UNCHANGED tempo_batch
              ELSE /\ tempo_batch' = tempoOfOnsets(times)
                   /\ tempoPc' = "doubling"
                   /\ UNCHANGED detectedBpm
    /\ UNCHANGED <<tempoPath, energies, bpm, bestBpm, bestScore>>

\* One iteration of while (tempo < 60) tempo *= 2.
TempoDouble ==
    /\ UNCHANGED notTempoVars
    /\ tempoPc = "doubling"
    /\ belowRange(tempo_batch)
    /\ tempo_batch' = FracMul(tempo_batch, Whole(2))
    /\ UNCHANGED <<tempoPath, energies, onsets, bpm, bestBpm, bestScore,
                   detectedBpm, tempoPc>>

\* The exit of the first loop.
TempoDoubled ==
    /\ UNCHANGED notTempoVars
    /\ tempoPc = "doubling"
    /\ ~belowRange(tempo_batch)
    /\ tempoPc' = "halving"
    /\ UNCHANGED <<tempoPath, energies, onsets, tempo_batch, bpm, bestBpm,
                   bestScore, detectedBpm>>

\* One iteration of while (tempo > 200) tempo /= 2.
TempoHalve ==
    /\ UNCHANGED notTempoVars
    /\ tempoPc = "halving"
    /\ aboveRange(tempo_batch)
    /\ tempo_batch' = FracDiv(tempo_batch, Whole(2))
    /\ UNCHANGED <<tempoPath, energies, onsets, bpm, bestBpm, bestScore,
                   detectedBpm, tempoPc>>

\* The exit of the second loop: return Math.round(tempo).
DetectTempoReturn_batch ==
    /\ UNCHANGED notTempoVars
    /\ tempoPc = "halving"
    /\ ~aboveRange(tempo_batch)
    /\ detectedBpm' = FracRound(tempo_batch)
    /\ tempoPc' = "done"
    /\ UNCHANGED <<tempoPath, energies, onsets, tempo_batch, bpm, bestBpm,
                   bestScore>>

\* Single-file detectTempo up to its loop over bpm.
DetectTempoEnter ==
    /\ UNCHANGED notTempoVars
    /\ tempoPc = "input"
    /\ tempoPath = "single"
    /\ onsets' = onsetStrengthOf(energies)
    /\ bestBpm' = 120
    /\ bestScore' = Whole(0)
    /\ bpm' = minBpm
    /\ tempoPc' = "scan"
    /\ UNCHANGED <<tempoPath, energies, tempo_batch, detectedBpm>>

\* One iteration of for (let bpm = minBpm; bpm <= maxBpm; bpm++).
DetectTempoScan ==
    /\ UNCHANGED notTempoVars
    /\ tempoPc = "scan"
    /\ bpm <= maxBpm
    /\ LET score == scoreOf(onsets, bpm)
       IN  IF exceedsBest(score, bestScore)
           THEN bestScore' = score /\ bestBpm' = bpm
           ELSE UNCHANGED <<bestScore, bestBpm>>
    /\ bpm' = bpm + 1
    /\ UNCHANGED <<tempoPath, energies, onsets, tempo_batch, detectedBpm,
                   tempoPc>>

\* return bestBpm
DetectTempoReturn ==
    /\ UNCHANGED notTempoVars
    /\ tempoPc = "scan"
    /\ bpm > maxBpm
    /\ detectedBpm' = bestBpm
    /\ tempoPc' = "done"
    /\ UNCHANGED <<tempoPath, energies, onsets, tempo_batch, bpm, bestBpm,
                   bestScore>>

NextTempo ==
    \/ DetectTempoEnter_batch
    \/ TempoDouble
    \/ TempoDoubled
    \/ TempoHalve
    \/ DetectTempoReturn_batch
    \/ DetectTempoEnter
    \/ DetectTempoScan
    \/ DetectTempoReturn

SpecTempo == InitTempo /\ [][NextTempo]_vars

----------------------------------------------------------------------------
(* Claims about tempo estimation.                                          *)

TempoInRange ==
    tempoPc = "done" =>
        /\ detectedBpm \in minBpm .. maxBpm
        /\ (tempoPath = "batch" /\ Len(onsets) < 2) => detectedBpm = 120
        /\ (tempoPath = "single"
              /\ \A candidate \in minBpm .. maxBpm :
                     ~FracLt(Whole(0), scoreOf(onsets, candidate)))
               => detectedBpm = 120

\* The number of steps detectTempo has left at most, up to an additive
\* share per position: the candidates not yet scanned, and a quantity that
\* each doubling and each halving makes smaller.
StepsLeft ==
    CASE tempoPc = "input" -> 1000000
      [] tempoPc = "scan" -> (maxBpm - bpm) + 2
      [] tempoPc = "doubling" ->
             FracFloor(FracDiv(Whole(120), tempo_batch)) + 1000
      [] tempoPc = "halving" ->
             FracFloor(FracDiv(tempo_batch, Whole(100))) + 1
      [] OTHER -> 0

\* C2: detectTempo returns a whole number of BPM from 60 to 200 on both
\* pages.  Batch page: the doubling and the halving loop end (every step
\* brings the end nearer by at least one) and the rounded result is in the range; fewer than two onsets
\* give 120.  Single-file page: the result is a candidate of 60..200, and
\* 120 when no candidate scores above 0.
C2_TempoInRange ==
    /\ []TempoInRange
    /\ [][StepsLeft' < StepsLeft /\ StepsLeft' >= 0]_vars

\* A batch run whose onsets are more than a second apart, so that the
\* doubling loop ran.
C2_FoldedWitness ==
    /\ tempoPc = "done"
    /\ tempoPath = "batch"
    /\ Len(onsets) >= 2
    /\ belowRange(tempoOfOnsets(onsets))
    /\ tempo_batch # tempoOfOnsets(onsets)

(***************************************************************************)
(* Note segmentation.  Both pages walk the first channel frame by frame,   *)
(* measure the frame's rms, ask detectPitch for its pitch, and open and    *)
(* close notes as the pitch changes.  A frame is modelled by what the loop *)
(* reads of it: its rms, and the pitch detectPitch reports for it as a     *)
(* number of half steps above C0 (NoPitch when detectPitch returns 0).     *)
(***************************************************************************)
NoPitch == -1

rest == <<"r", "e", "s", "t">>

\* `${octave}` for the octaves that occur.
octaveChars(octave) ==
    IF octave < 10 THEN <<DigitChar(octave)>>
    ELSE <<DigitChar(octave \div 10), DigitChar(octave % 10)>>

\* 50 Hz lies 12 log2(50 / c0) = 19.35 half steps above C0.
halfStepsOf50Hz == Frac(1935, 100)

\* x % 12 for x >= 0.
FracMod12(x) == FracSub(x, Whole(12 * FracFloor(FracDiv(x, Whole(12)))))

\* The body of the single-file frequencyToNote on halfSteps, the distance
\* of the frequency from C0 in half steps: the octave is taken from the
\* unrounded distance, the name from the rounded remainder.
halfStepsToNote(halfSteps) ==
    IF FracLt(halfSteps, halfStepsOf50Hz) THEN rest
    ELSE LET octave == FracFloor(FracDiv(halfSteps, Whole(12)))
             note == FracRound(FracMod12(halfSteps))
             clampedNote == ((note % 12) + 12) % 12
         IN  At0(noteNames, clampedNote) \o octaveChars(octave)

\* The body of the batch frequencyToNote: halfStepsFromA4 is rounded and 57
\* added, which is the distance from C0 rounded.
halfStepsToNote_batch(halfSteps) ==
    LET noteIndex == FracRound(FracSub(halfSteps, Whole(57))) + 57
    IN  IF noteIndex < 0 \/ noteIndex > 127 THEN <<>>
        ELSE At0(noteNames, noteIndex % 12) \o octaveChars(noteIndex \div 12)

\* frequencyToNote of the single-file page on a frame whose pitch is a
\* whole number of half steps above C0: "rest" when detectPitch found none.
frequencyToNote(pitch) ==
    IF pitch = NoPitch THEN rest ELSE halfStepsToNote(Whole(pitch))

frequencyToPitchClass(pitch) ==
    IF pitch = NoPitch THEN -1 ELSE pitch % 12

\* frequencyToNote of the batch page: "" for no frequency or a note index
\* outside 0..127.
frequencyToNote_batch(pitch) ==
    IF pitch = NoPitch THEN <<>> ELSE halfStepsToNote_batch(Whole(pitch))

\* frequency < 80 || frequency > 2000: E2 is 28 half steps above C0 and B6
\* is 83.
outOfRange_batch(pitch) == pitch = NoPitch \/ pitch < 28 \/ pitch > 83

hopSize_melody == 2048
frameSize_melody == 4096
hopSize_batch == 512
frameSize_batch == 2048
pitchSensitivity == 70

\* rmsThreshold = 0.01 * (params.pitchSensitivity / 100)
rmsThresholdAt(sensitivity) == Frac(sensitivity, 10000)

\* minAmplitude = (100 - params.pitchSensitivity) / 1000
minAmplitudeAt(sensitivity) == Frac(100 - sensitivity, 1000)

rmsThreshold == rmsThresholdAt(pitchSensitivity)

minAmplitude == minAmplitudeAt(pitchSensitivity)

\* params.minNoteDuration / 1000
minDuration == Frac(segMinNoteDuration, 1000)

\* The loop runs while i < data.length - frameSize: the recording modelled
\* is the one that holds exactly the frames given.
dataLength(frames, hop, frameSize) == Len(frames) * hop + frameSize

\* i / sampleRate for the frame being processed.
frameTime(hop) == Frac(segFrame * hop, sampleRate)

\* A note that lasts from the start of the recording to the given time.
closedNote_fromZero(endTime, velocity) ==
    [note |-> segLastNote, time |-> segNoteStartTime,
     duration |-> endTime, velocity |-> velocity]

\* The note a page pushes when it closes lastNote at the given time.
closedNote(endTime, velocity) ==
    [note |-> segLastNote, time |-> segNoteStartTime,
     duration |-> FracSub(endTime, segNoteStartTime), velocity |-> velocity]

\* if (duration > minDuration) notes.push(...)
pushIfLonger(endTime) ==
    IF FracLt(minDuration, FracSub(endTime, segNoteStartTime))
    THEN Append(segNotes, closedNote(endTime, undefined))
    ELSE segNotes

\* if (duration >= minNoteDurationSec) notes.push(...)
pushIfLongEnough(endTime, velocity) ==
    IF FracLe(minDuration, FracSub(endTime, segNoteStartTime))
    THEN Append(segNotes, closedNote(endTime, velocity))
    ELSE segNotes

\* notes.slice(0, 64)
slice64(notes) == SubSeq(notes, 1, IF Len(notes) < 64 THEN Len(notes) ELSE 64)

\* The page hands the segmented notes on as they are.
unsliced(notes) == notes

MaxFrames == 66

Silence == [rms |-> Whole(0), pitch |-> NoPitch]
SegFrameKinds ==
    { Silence,
      [rms |-> Frac(1, 50), pitch |-> 48],
      [rms |-> Frac(1, 5), pitch |-> 48],
      [rms |-> Frac(1, 5), pitch |-> 50],
      [rms |-> Frac(1, 5), pitch |-> NoPitch] }

\* Recordings whose frames repeat a cycle of one or two frames.
SegCycles ==
    { <<a>> : a \in SegFrameKinds }
    \cup { <<a, b>> : a \in SegFrameKinds, b \in SegFrameKinds }

Repeat(cycle, n) == [k \in 1 .. n |-> cycle[((k - 1) % Len(cycle)) + 1]]

InitSeg ==
    /\ IdleButSeg
    /\ segPath \in {"single", "batch"}
    /\ \E cycle \in SegCycles, n \in (MaxFrames - 2) .. MaxFrames :
           segFrames = Repeat(cycle, n)
    /\ segMinNoteDuration \in {10, 50}
    /\ segFrame = 0
    /\ segLastNote = <<>>
    /\ segNoteStartTime = Whole(0)
    /\ segNotes = <<>>
    /\ segHistogram = IF segPath = "single"
                      THEN [k \in 1 .. 12 |-> Whole(0)]
                      ELSE <<>>
    /\ segResult = <<>>
    /\ segPc = "frames"

\* One pass of the loop of extractMelody.
ExtractMelodyFrame ==
    /\ UNCHANGED notSegVars
    /\ segPath = "single"
    /\ segPc = "frames"
    /\ segFrame < Len(segFrames)
    /\ LET frame == segFrames[segFrame + 1]
           now == frameTime(hopSize_melody)
           note == frequencyToNote(frame.pitch)
           pitchClass == frequencyToPitchClass(frame.pitch)
           open == segLastNote # <<>> /\ segLastNote # rest
       IN  IF FracLt(frame.rms, rmsThreshold)
           THEN /\ segNotes' = IF open THEN pushIfLonger(now) ELSE segNotes
                /\ segLastNote' = IF open THEN <<>> ELSE segLastNote
                /\ UNCHANGED <<segNoteStartTime, segHistogram>>
           ELSE /\ segHistogram' =
                       IF pitchClass >= 0
                       THEN [segHistogram EXCEPT ![pitchClass + 1] =
                                FracAdd(@, frame.rms)]
                       ELSE segHistogram
                /\ IF note # rest /\ note # segLastNote
                   THEN /\ segNotes' =
                               IF open THEN pushIfLonger(now) ELSE segNotes
                        /\ segLastNote' = note
                        /\ segNoteStartTime' = now
                   ELSE UNCHANGED <<segNotes, segLastNote, segNoteStartTime>>
    /\ segFrame' = segFrame + 1
    /\ UNCHANGED <<segPath, segFrames, segMinNoteDuration, segResult, segPc>>

\* After the loop extractMelody closes the note still open at the end of
\* the recording.
ExtractMelodyFlush ==
    /\ UNCHANGED notSegVars
    /\ segPath = "single"
    /\ segPc = "frames"
    /\ segFrame = Len(segFrames)
    /\ LET end == Frac(dataLength(segFrames, hopSize_melody, frameSize_melody),
                       sampleRate)
       IN  segNotes' = IF segLastNote # <<>> /\ segLastNote # rest
                       THEN pushIfLonger(end)
                       ELSE segNotes
    /\ segPc' = "return"
    /\ UNCHANGED <<segPath, segFrames, segMinNoteDuration, segFrame,
                   segLastNote, segNoteStartTime, segHistogram, segResult>>

\* return { notes: notes.slice(0, 64), pitchClassHistogram }
ExtractMelodyReturn ==
    /\ UNCHANGED notSegVars
    /\ segPath = "single"
    /\ segPc = "return"
    /\ segResult' = slice64(segNotes)
    /\ segPc' = "done"
    /\ UNCHANGED <<segPath, segFrames, segMinNoteDuration, segFrame,
                   segLastNote, segNoteStartTime, segNotes, segHistogram>>

\* One pass of the frame loop of analyzeAudioFile.
AnalyzeAudioFileFrame ==
    /\ UNCHANGED notSegVars
    /\ segPath = "batch"
    /\ segPc = "frames"
    /\ segFrame < Len(segFrames)
    /\ LET frame == segFrames[segFrame + 1]
           now == frameTime(hopSize_batch)
           note == frequencyToNote_batch(frame.pitch)
           velocity == FracMin(Whole(1), FracMul(frame.rms, Whole(10)))
           open == segLastNote # <<>>
       IN  IF FracLt(frame.rms, minAmplitude)
           THEN /\ segNotes' =
                       IF open THEN pushIfLongEnough(now, velocity)
                       ELSE segNotes
                /\ segLastNote' = <<>>
                /\ UNCHANGED segNoteStartTime
           ELSE IF outOfRange_batch(frame.pitch)
           THEN UNCHANGED <<segNotes, segLastNote, segNoteStartTime>>
           ELSE IF note # segLastNote
           THEN /\ segNotes' =
                       IF open THEN pushIfLongEnough(now, velocity)
                       ELSE segNotes
                /\ segLastNote' = note
                /\ segNoteStartTime' = now
           ELSE UNCHANGED <<segNotes, segLastNote, segNoteStartTime>>
    /\ segFrame' = segFrame + 1
    /\ UNCHANGED <<segPath, segFrames, segMinNoteDuration, segHistogram,
                   segResult, segPc>>

\* After the loop analyzeAudioFile closes the note still open, up to
\* audioBuffer.duration.
AnalyzeAudioFileFlush ==
    /\ UNCHANGED notSegVars
    /\ segPath = "batch"
    /\ segPc = "frames"
    /\ segFrame = Len(segFrames)
    /\ LET end == Frac(dataLength(segFrames, hopSize_batch, frameSize_batch),
                       sampleRate)
       IN  segNotes' = IF segLastNote # <<>>
                       THEN pushIfLongEnough(end, Frac(4, 5))
                       ELSE segNotes
    /\ segPc' = "return"
    /\ UNCHANGED <<segPath, segFrames, segMinNoteDuration, segFrame,
                   segLastNote, segNoteStartTime, segHistogram, segResult>>

\* return { notes, chords, result, strudelCode }
AnalyzeAudioFileReturn ==
    /\ UNCHANGED notSegVars
    /\ segPath = "batch"
    /\ segPc = "return"
    /\ segResult' = unsliced(segNotes)
    /\ segPc' = "done"
    /\ UNCHANGED <<segPath, segFrames, segMinNoteDuration, segFrame,
                   segLastNote, segNoteStartTime, segNotes, segHistogram>>

NextSeg ==
    \/ ExtractMelodyFrame
    \/ ExtractMelodyFlush
    \/ ExtractMelodyReturn
    \/ AnalyzeAudioFileFrame
    \/ AnalyzeAudioFileFlush
    \/ AnalyzeAudioFileReturn

SpecSeg == InitSeg /\ [][NextSeg]_vars

\* The melody of a finished analysis is the first 64 segmented notes.
CappedAt64 ==
    segPc = "done" =>
        /\ Len(segResult) <= 64
        /\ Len(segNotes) > 64 => segResult = SubSeq(segNotes, 1, 64)
        /\ Len(segNotes) <= 64 => segResult = segNotes

\* C1: on every entry point (extractMelody of the single-file page and
\* analyzeAudioFile of the batch page) a segmentation of more than 64 notes
\* leaves exactly its first 64 notes, in order, in the analysis result, and
\* no result carries more than 64 notes.
C1_MelodyCappedAt64 == CappedAt64

\* The cap as the single-file page alone keeps it.
C1_SingleFileCapped == segPath = "single" => CappedAt64

\* A finished single-file analysis that had more than 64 notes to truncate.
C1_SingleFileTruncated ==
    /\ segPath = "single"
    /\ segPc = "done"
    /\ Len(segNotes) > 64
    /\ Len(segResult) = 64

\* A finished batch analysis whose result carries more than 64 notes.
C1_BatchOverCap ==
    /\ segPath = "batch"
    /\ segPc = "done"
    /\ Len(segResult) > 64

----------------------------------------------------------------------------
(***************************************************************************)
(* Sequence-file export (client/src/lib/midi-export.ts).  The file is the  *)
(* array of numbers the code builds, narrowed to bytes by Uint8Array.      *)
(***************************************************************************)
NOTE_MAP ==
    (<<"c">> :> 0) @@ (<<"c", "s">> :> 1) @@ (<<"d">> :> 2)
        @@ (<<"d", "s">> :> 3) @@ (<<"e">> :> 4) @@ (<<"f">> :> 5)
        @@ (<<"f", "s">> :> 6) @@ (<<"g">> :> 7) @@ (<<"g", "s">> :> 8)
        @@ (<<"a">> :> 9) @@ (<<"a", "s">> :> 10) @@ (<<"b">> :> 11)

\* note.match(/^([a-g]s?)(\d+)$/i): the name in lower case and the octave,
\* or null (the empty tuple).
parseNote(note) ==
    LET lower == [k \in 1 .. Len(note) |-> toLowerCase(note[k])]
        nameLen == IF Len(lower) >= 2 /\ lower[2] = "s" THEN 2 ELSE 1
        digits == SubSeq(lower, nameLen + 1, Len(lower))
    IN  IF /\ Len(lower) >= 2
           /\ lower[1] \in LowerLetters
           /\ Len(digits) >= 1
           /\ PrefixIn(digits, DigitChars) = Len(digits)
        THEN [noteName |-> SubSeq(lower, 1, nameLen), octave |-> parseInt(digits)]
        ELSE <<>>

\* Every name read as the C of its octave.
noteToMidi_unknownName(note) ==
    LET parsed == parseNote(note)
    IN  IF parsed = <<>> THEN 60 ELSE (parsed.octave + 1) * 12

noteToMidi(note) ==
    LET parsed == parseNote(note)
    IN  IF parsed = <<>> THEN 60
        ELSE LET noteNum == IF parsed.noteName \in DOMAIN NOTE_MAP
                            THEN NOTE_MAP[parsed.noteName]
                            ELSE 0
             IN  noteNum + (parsed.octave + 1) * 12

\* The groups of seven bits above the lowest one, most significant first,
\* each with the continuation bit set.
RECURSIVE continuationBytes(_)
continuationBytes(v) ==
    IF v > 0 THEN continuationBytes(v \div 128) \o <<(v % 128) + 128>>
    ELSE <<>>

\* The encoding without the final reverse: the lowest group comes first.
writeVariableLengthQuantity_lowestFirst(value) ==
    <<value % 128>> \o continuationBytes(value \div 128)

writeVariableLengthQuantity(value) ==
    continuationBytes(value \div 128) \o <<value % 128>>

writeInt16BE(value) == <<(value \div 256) % 256, value % 256>>

writeInt32BE(value) ==
    <<(value \div 16777216) % 256, (value \div 65536) % 256,
      (value \div 256) % 256, value % 256>>

\* trackData after the loop over the events.
RECURSIVE eventBytes(_, _)
eventBytes(events, k) ==
    IF k > Len(events) THEN <<>>
    ELSE writeVariableLengthQuantity(events[k].delta) \o events[k].data
             \o eventBytes(events, k + 1)

\* A track chunk whose declared length leaves out the end-of-track event.
createMidiTrack_lengthOfEvents(events) ==
    <<77, 84, 114, 107>> \o writeInt32BE(Len(eventBytes(events, 1)))
        \o eventBytes(events, 1)
        \o writeVariableLengthQuantity(0) \o <<255, 47, 0>>

createMidiTrack(events) ==
    LET trackData == eventBytes(events, 1)
                         \o writeVariableLengthQuantity(0) \o <<255, 47, 0>>
    IN  <<77, 84, 114, 107>> \o writeInt32BE(Len(trackData)) \o trackData

\* (data[0] & 0xF0) === 0x80
isNoteOff(event) == event.data[1] \div 16 = 8

\* A comparator that looks at the tick alone.
compareEvents_tickOnly(a, b) == a.absoluteTick - b.absoluteTick

\* The comparator handed to absoluteEvents.sort.
compareEvents(a, b) ==
    IF a.absoluteTick # b.absoluteTick THEN a.absoluteTick - b.absoluteTick
    ELSE IF isNoteOff(a) # isNoteOff(b) THEN (IF isNoteOff(a) THEN -1 ELSE 1)
    ELSE 0

\* Array.prototype.sort is stable: equal events keep their order.
sortEvents(events) ==
    LET n == Len(events)
        rank == [i \in 1 .. n |->
                    Cardinality({ j \in 1 .. n :
                        \/ compareEvents(events[j], events[i]) < 0
                        \/ /\ compareEvents(events[j], events[i]) = 0
                           /\ j < i })]
    IN  [r \in 1 .. n |-> events[CHOOSE i \in 1 .. n : rank[i] = r - 1]]

\* The differences as they come, without Math.max(0, delta).
deltaEncode_unclamped(events) ==
    [k \in 1 .. Len(events) |->
        [delta |-> events[k].absoluteTick
                       - (IF k = 1 THEN 0 ELSE events[k - 1].absoluteTick),
         data |-> events[k].data]]

\* The loop that turns absolute ticks into deltas.
deltaEncode(events) ==
    [k \in 1 .. Len(events) |->
        LET lastTick == IF k = 1 THEN 0 ELSE events[k - 1].absoluteTick
            delta == events[k].absoluteTick - lastTick
        IN  [delta |-> IF delta > 0 THEN delta ELSE 0, data |-> events[k].data]]

\* Ticks counted as if a beat always lasted one second.
timeToTicks_perSecond(time, tempo, ticksPerBeat) ==
    FracRound(FracMul(time, Whole(ticksPerBeat)))

\* Math.round(time * tempo / 60 * ticksPerBeat)
timeToTicks(time, tempo, ticksPerBeat) ==
    FracRound(FracMul(time, Frac(tempo * ticksPerBeat, 60)))

RECURSIVE concat(_, _)
concat(arrays, k) ==
    IF k > Len(arrays) THEN <<>> ELSE arrays[k] \o concat(arrays, k + 1)

\* The note-on and note-off of every melody note, in melody order.
melodyEvents(notes, tempo, ticksPerBeat) ==
    [k \in 1 .. 2 * Len(notes) |->
        LET note == notes[(k + 1) \div 2]
            midiNote == noteToMidi(note.note)
            velocity == FracRound(FracMul(orElse(note.velocity, Frac(4, 5)),
                                          Whole(127)))
            startTick == timeToTicks(note.time, tempo, ticksPerBeat)
            ticks == timeToTicks(orElse(note.duration, Frac(1, 4)),
                                 tempo, ticksPerBeat)
            durationTicks == IF ticks > 1 THEN ticks ELSE 1
        IN  IF k % 2 = 1
            THEN [absoluteTick |-> startTick, data |-> <<144, midiNote, velocity>>]
            ELSE [absoluteTick |-> startTick + durationTicks,
                  data |-> <<128, midiNote, 0>>]]

\* The note-on and note-off of every note of every chord.
chordEvents(chordList, tempo, ticksPerBeat) ==
    concat([c \in 1 .. Len(chordList) |->
        LET chord == chordList[c]
            startTick == timeToTicks(chord.time, tempo, ticksPerBeat)
            ticks == timeToTicks(orElse(chord.duration, Whole(1)),
                                 tempo, ticksPerBeat)
            durationTicks == IF ticks > 1 THEN ticks ELSE 1
        IN  [k \in 1 .. 2 * Len(chord.notes) |->
                LET midiNote == noteToMidi(chord.notes[(k + 1) \div 2])
                IN  IF k % 2 = 1
                    THEN [absoluteTick |-> startTick,
                          data |-> <<145, midiNote, 80>>]
                    ELSE [absoluteTick |-> startTick + durationTicks,
                          data |-> <<129, midiNote, 0>>]]], 1)

\* A destructured option takes its default when the object does not hold it.
optionOr(options, name, default) ==
    IF name \in DOMAIN options THEN options[name] ELSE default

\* new Uint8Array(midiData)
Uint8Array(numbers) == [k \in 1 .. Len(numbers) |-> numbers[k] % 256]

AudioTrack == <<65, 117, 100, 105, 111, 32, 84, 114, 97, 99, 107>>

\* absoluteEvents when the two loops have pushed their events.
absoluteEventsOf(notes, chordList, options) ==
    LET tempo == options.tempo
        ticksPerBeat == optionOr(options, "ppq", 480)
        includeChords == optionOr(options, "includeChords", TRUE)
        includeMelody == optionOr(options, "includeMelody", TRUE)
    IN  (IF includeMelody /\ Len(notes) > 0
         THEN melodyEvents(notes, tempo, ticksPerBeat) ELSE <<>>)
        \o (IF includeChords /\ Len(chordList) > 0
            THEN chordEvents(chordList, tempo, ticksPerBeat) ELSE <<>>)

exportMelodyToMidi(notes, chordList, options) ==
    LET tempo == options.tempo
        ticksPerBeat == optionOr(options, "ppq", 480)
        microsecondsPerBeat == FracRound(Frac(60000000, tempo))
        headerChunk == <<77, 84, 104, 100, 0, 0, 0, 6, 0, 1>>
                           \o writeInt16BE(2) \o writeInt16BE(ticksPerBeat)
        tempoTrackEvents ==
            << [delta |-> 0,
                data |-> <<255, 81, 3,
                           (microsecondsPerBeat \div 65536) % 256,
                           (microsecondsPerBeat \div 256) % 256,
                           microsecondsPerBeat % 256>>],
               [delta |-> 0, data |-> <<255, 88, 4, 4, 2, 24, 8>>],
               [delta |-> 0, data |-> <<255, 3, 11>> \o AudioTrack] >>
        tempoTrack == createMidiTrack(tempoTrackEvents)
        absoluteEvents == absoluteEventsOf(notes, chordList, options)
        noteTrack == createMidiTrack(deltaEncode(sortEvents(absoluteEvents)))
    IN  Uint8Array(headerChunk \o tempoTrack \o noteTrack)

MaxMidiNotes == 32

MidiNote(note, time, duration, velocity) ==
    [note |-> note, time |-> time, duration |-> duration, velocity |-> velocity]

\* A run of quarter-second notes climbing from c4.
MidiScale(n) ==
    [k \in 1 .. n |->
        MidiNote(At0(noteNames, (k - 1) % 12) \o <<"4">>, Frac(k - 1, 4),
                 Frac(1, 4), undefined)]

MidiMelodies ==
    { <<>>,
      << MidiNote(<<"c", "4">>, Whole(0), undefined, undefined) >>,
      << MidiNote(<<"c", "s", "4">>, Whole(0), Frac(1, 2), Frac(1, 2)),
         MidiNote(<<"C", "#", "4">>, Frac(1, 2), Whole(0), Whole(1)) >>,
      << MidiNote(<<"a", "1", "0">>, Frac(1, 2), Frac(1, 2), Whole(0)),
         MidiNote(<<"A", "S", "3">>, Whole(0), Frac(1, 2), undefined) >>,
      << MidiNote(<<"e", "4">>, Frac(-1, 2), Frac(1, 4), undefined),
         MidiNote(<<"g", "4">>, Whole(0), Frac(1, 2), undefined) >>,
      MidiScale(MaxMidiNotes) }

MidiChords ==
    { <<>>,
      << Chord(<< <<"C", "4">>, <<"E", "4">>, <<"G", "4">> >>, "C",
               Whole(0), Whole(1)) >>,
      << Chord(<< <<"c", "4">>, <<"e", "4">>, <<"g", "4">> >>, "C",
               Whole(0), undefined) >>,
      << Chord(<< <<"c", "4">>, <<"e", "4">>, <<"g", "4">> >>, "C",
               Whole(0), Whole(1)),
         Chord(<< <<"g", "3">>, <<"b", "3">> >>, "G", Whole(1), Frac(1, 2)) >> }

MidiTempos == {60, 90, 120}

\* Option objects: tempo always, the other properties given or left out.
MidiOptions ==
    { [tempo |-> t] : t \in MidiTempos }
    \cup { [tempo |-> t, ppq |-> p] : t \in MidiTempos, p \in {96, 480, 960} }
    \cup [tempo : MidiTempos, includeMelody : BOOLEAN, includeChords : BOOLEAN]
    \cup [tempo : MidiTempos, ppq : {96}, includeMelody : BOOLEAN,
          includeChords : BOOLEAN]

InitMidi ==
    /\ IdleButMidi
    /\ midiMelody \in MidiMelodies
    /\ midiChords \in MidiChords
    /\ midiOptions = <<>>
    /\ midiAbsoluteEvents = <<>>
    /\ midiSortedEvents = <<>>
    /\ midiDeltaEvents = <<>>
    /\ midiData = <<>>
    /\ midiPc = "input"

\* What a call of exportMelodyToMidi with the given options leaves behind:
\* its event lists and the bytes it returns.
Exported(options) ==
    /\ midiOptions' = options
    /\ midiAbsoluteEvents' = absoluteEventsOf(midiMelody, midiChords, options)
    /\ midiSortedEvents' =
           sortEvents(absoluteEventsOf(midiMelody, midiChords, options))
    /\ midiDeltaEvents' =
           deltaEncode(sortEvents(
               absoluteEventsOf(midiMelody, midiChords, options)))
    /\ midiData' = exportMelodyToMidi(midiMelody, midiChords, options)

\* A call of exportMelodyToMidi with any option object.
ExportMelodyToMidi ==
    /\ UNCHANGED notMidiVars
    /\ midiPc = "input"
    /\ \E options \in MidiOptions : Exported(options)
    /\ midiPc' = "done"
    /\ UNCHANGED <<midiMelody, midiChords>>

\* handleExport of the export dialog: the tempo of the analysis and the two
\* switches of the dialog.
HandleExport ==
    /\ UNCHANGED notMidiVars
    /\ midiPc = "input"
    /\ \E tempo \in MidiTempos, includeMelody \in BOOLEAN,
          includeChords \in BOOLEAN :
           LET options == [tempo |-> tempo, includeMelody |-> includeMelody,
                           includeChords |-> includeChords]
           IN  Exported(options)
    /\ midiPc' = "done"
    /\ UNCHANGED <<midiMelody, midiChords>>

\* handleExportMidi of the batch page: { tempo: estimatedTempo || 120 }.
HandleExportMidi ==
    /\ UNCHANGED notMidiVars
    /\ midiPc = "input"
    /\ \E estimated \in {undefined, Whole(0), Whole(90)} :
           LET options == [tempo |-> orElse(estimated, Whole(120))[1]]
           IN  Exported(options)
    /\ midiPc' = "done"
    /\ UNCHANGED <<midiMelody, midiChords>>

NextMidi ==
    \/ ExportMelodyToMidi
    \/ HandleExport
    \/ HandleExportMidi

SpecMidi == InitMidi /\ [][NextMidi]_vars

\* Reading a sequence file back: big-endian numbers and chunks.
ReadInt16(bytes, at) == bytes[at] * 256 + bytes[at + 1]

ReadInt32(bytes, at) ==
    bytes[at] * 16777216 + bytes[at + 1] * 65536
        + bytes[at + 2] * 256 + bytes[at + 3]

\* A well-formed track chunk starts at position `at` and fits in the file.
TrackAt(bytes, at) ==
    /\ Len(bytes) >= at + 7
    /\ SubSeq(bytes, at, at + 3) = <<77, 84, 114, 107>>
    /\ Len(bytes) >= at + 7 + ReadInt32(bytes, at + 4)
    /\ ReadInt32(bytes, at + 4) >= 4
    /\ SubSeq(bytes, at + 4 + ReadInt32(bytes, at + 4),
              at + 7 + ReadInt32(bytes, at + 4)) = <<0, 255, 47, 0>>

\* The position after the chunk that starts at `at`.
AfterChunk(bytes, at) == at + 8 + ReadInt32(bytes, at + 4)

ExportedFile ==
    /\ Len(midiData) >= 14
    /\ \A k \in 1 .. Len(midiData) : midiData[k] \in 0 .. 255
    /\ SubSeq(midiData, 1, 4) = <<77, 84, 104, 100>>
    /\ ReadInt32(midiData, 5) = 6
    /\ ReadInt16(midiData, 9) = 1
    /\ ReadInt16(midiData, 11) = 2
    /\ ReadInt16(midiData, 13) = optionOr(midiOptions, "ppq", 480)
    /\ TrackAt(midiData, 15)
    /\ TrackAt(midiData, AfterChunk(midiData, 15))
    /\ AfterChunk(midiData, AfterChunk(midiData, 15)) = Len(midiData) + 1

\* C10: the bytes of every export are an MThd chunk of length 6, format 1,
\* two tracks and division ppq (480 when not given), followed by exactly
\* two MTrk chunks whose declared length is the length of their body and
\* whose body ends with delta 0 and FF 2F 00.
C10_SequenceFileStructure == midiPc = "done" => ExportedFile

\* An export of a melody and chords, both switched on, whose note track is
\* longer than 255 bytes, so that its length needs more than one byte.
C10_LongTrackWitness ==
    /\ midiPc = "done"
    /\ Len(midiMelody) > 0
    /\ Len(midiChords) > 0
    /\ optionOr(midiOptions, "includeMelody", TRUE)
    /\ optionOr(midiOptions, "includeChords", TRUE)
    /\ ReadInt32(midiData, AfterChunk(midiData, 15) + 4) > 255

\* An export with nothing to write: the note track is the end-of-track
\* event alone.
C10_EmptyTrackReached ==
    /\ midiPc = "done"
    /\ midiMelody = <<>>
    /\ midiChords = <<>>
    /\ ReadInt32(midiData, AfterChunk(midiData, 15) + 4) = 4

\* The sum of the deltas written up to and including event k.
RECURSIVE TicksUpTo(_, _)
TicksUpTo(events, k) ==
    IF k = 0 THEN 0 ELSE TicksUpTo(events, k - 1) + events[k].delta

OnsetsNotNegative ==
    /\ \A k \in 1 .. Len(midiMelody) : ~FracLt(midiMelody[k].time, Whole(0))
    /\ \A k \in 1 .. Len(midiChords) : ~FracLt(midiChords[k].time, Whole(0))

\* round(seconds x tempo / 60 x ppq), computed on whole numbers.
ExpectedTicks(seconds) ==
    LET product == seconds[1] * midiOptions.tempo
                       * optionOr(midiOptions, "ppq", 480)
        divisor == seconds[2] * 60
    IN  (2 * product + divisor) \div (2 * divisor)

\* The melody's note k was pushed as a pitch-on at its onset tick and a
\* pitch-off at least one tick later.
MelodyTicksAsExpected ==
    (optionOr(midiOptions, "includeMelody", TRUE) /\ Len(midiMelody) > 0) =>
        \A k \in 1 .. Len(midiMelody) :
            /\ midiAbsoluteEvents[2 * k - 1].absoluteTick =
                   ExpectedTicks(midiMelody[k].time)
            /\ midiAbsoluteEvents[2 * k].absoluteTick =
                   ExpectedTicks(midiMelody[k].time)
                       + (IF ExpectedTicks(orElse(midiMelody[k].duration,
                                                  Frac(1, 4))) > 1
                          THEN ExpectedTicks(orElse(midiMelody[k].duration,
                                                    Frac(1, 4)))
                          ELSE 1)

DeltasKeepTime ==
    /\ Len(midiDeltaEvents) = Len(midiSortedEvents)
    /\ Len(midiSortedEvents) = Len(midiAbsoluteEvents)
    /\ \A k \in 1 .. Len(midiSortedEvents) - 1 :
           midiSortedEvents[k].absoluteTick
               <= midiSortedEvents[k + 1].absoluteTick
    /\ \A k \in 1 .. Len(midiDeltaEvents) :
           /\ midiDeltaEvents[k].delta >= 0
           /\ midiDeltaEvents[k].data = midiSortedEvents[k].data
    /\ OnsetsNotNegative =>
           \A k \in 1 .. Len(midiDeltaEvents) :
               TicksUpTo(midiDeltaEvents, k) = midiSortedEvents[k].absoluteTick
    /\ MelodyTicksAsExpected

\* C12: the note track's events are written in non-decreasing tick order
\* with deltas >= 0, and when no onset is negative the deltas up to an event
\* add up to its absolute tick (the rounded onset for a pitch-on, onset plus
\* duration ticks for a pitch-off).
C12_DeltasKeepTime == midiPc = "done" => DeltasKeepTime

\* An export whose events had to be reordered and whose deltas are not all
\* zero.
C12_ReorderedWitness ==
    /\ midiPc = "done"
    /\ OnsetsNotNegative
    /\ midiSortedEvents # midiAbsoluteEvents
    /\ \E k \in 2 .. Len(midiDeltaEvents) : midiDeltaEvents[k].delta > 0

\* An export of a note that starts before time 0: its delta is clamped.
C12_NegativeOnsetReached ==
    /\ midiPc = "done"
    /\ ~OnsetsNotNegative
    /\ Len(midiSortedEvents) > 0
    /\ midiSortedEvents[1].absoluteTick < 0
    /\ midiDeltaEvents[1].delta = 0

\* A pitch-off has status 0x8n, a pitch-on 0x9n, whatever the channel n.
IsPitchOff(event) == event.data[1] \in {128, 129}
IsPitchOn(event) == event.data[1] \in {144, 145}

\* The events of one kind at one tick, in the order of the list.
SameKindAt(events, tick, off) ==
    SelectSeq(events,
              LAMBDA e : e.absoluteTick = tick /\ IsPitchOff(e) = off)

OffBeforeOn ==
    /\ \A i \in 1 .. Len(midiSortedEvents), j \in 1 .. Len(midiSortedEvents) :
           ( /\ i < j
             /\ midiSortedEvents[i].absoluteTick
                    = midiSortedEvents[j].absoluteTick )
           => ~(IsPitchOn(midiSortedEvents[i]) /\ IsPitchOff(midiSortedEvents[j]))
    /\ \A k \in 1 .. Len(midiSortedEvents), off \in BOOLEAN :
           SameKindAt(midiSortedEvents, midiSortedEvents[k].absoluteTick, off)
               = SameKindAt(midiAbsoluteEvents,
                            midiSortedEvents[k].absoluteTick, off)

\* C13: at one tick every pitch-off is written before every pitch-on,
\* whatever their channels and pitches and the order they were pushed in,
\* and events of one kind at one tick keep their insertion order.
C13_OffBeforeOn == midiPc = "done" => OffBeforeOn

\* A pitch-on pushed before a pitch-off of the same tick on the other
\* channel: the sort has to move the pitch-off in front of it.
C13_TieWitness ==
    /\ midiPc = "done"
    /\ \E i \in 1 .. Len(midiAbsoluteEvents), j \in 1 .. Len(midiAbsoluteEvents) :
           /\ i < j
           /\ midiAbsoluteEvents[i].absoluteTick
                  = midiAbsoluteEvents[j].absoluteTick
           /\ midiAbsoluteEvents[i].data[1] = 144
           /\ midiAbsoluteEvents[j].data[1] = 129

\* Scenario D: one C major chord of one second, no melody, tempo 120 and
\* 480 ticks per beat.
ScenarioD ==
    /\ midiMelody = <<>>
    /\ midiChords = << Chord(<< <<"C", "4">>, <<"E", "4">>, <<"G", "4">> >>,
                             "C", Whole(0), Whole(1)) >>
    /\ midiOptions.tempo = 120
    /\ optionOr(midiOptions, "ppq", 480) = 480
    /\ optionOr(midiOptions, "includeChords", TRUE)

\* deltaEvents with the pitch-off events one beat (480 ticks) after the
\* pitch-on events.
ScenarioDTrackAt480 ==
    << [delta |-> 0, data |-> <<145, 60, 80>>],
       [delta |-> 0, data |-> <<145, 64, 80>>],
       [delta |-> 0, data |-> <<145, 67, 80>>],
       [delta |-> 480, data |-> <<129, 60, 0>>],
       [delta |-> 0, data |-> <<129, 64, 0>>],
       [delta |-> 0, data |-> <<129, 67, 0>>] >>

\* deltaEvents with the pitch-off events one second after the pitch-on
\* events: at tempo 120 a second is two beats, 960 ticks.
ScenarioDTrackAt960 ==
    << [delta |-> 0, data |-> <<145, 60, 80>>],
       [delta |-> 0, data |-> <<145, 64, 80>>],
       [delta |-> 0, data |-> <<145, 67, 80>>],
       [delta |-> 960, data |-> <<129, 60, 0>>],
       [delta |-> 0, data |-> <<129, 64, 0>>],
       [delta |-> 0, data |-> <<129, 67, 0>>] >>

\* The bytes of that note track, after its eight-byte header: 960 is
\* written as 87 40.
ScenarioDBytes ==
    <<0, 145, 60, 80, 0, 145, 64, 80, 0, 145, 67, 80,
      135, 64, 129, 60, 0, 0, 129, 64, 0, 0, 129, 67, 0, 0, 255, 47, 0>>

\* C14 as stated: scenario D gives three pitch-on events at tick 0 on
\* channel 1 and the three matching pitch-off events at tick 480, the first
\* of them with delta 480 and every other delta 0.
C14_ScenarioDAsStated ==
    (midiPc = "done" /\ ScenarioD) =>
        /\ midiDeltaEvents = ScenarioDTrackAt480
        /\ \A k \in 1 .. 3 : midiSortedEvents[k].absoluteTick = 0
        /\ \A k \in 4 .. 6 : midiSortedEvents[k].absoluteTick = 480

\* C14, amended: scenario D gives three pitch-on events at tick 0 on
\* channel 1 and the three matching pitch-off events at tick
\* round(1 x 120 / 60 x 480) = 960, the first of them with delta 960 and
\* every other delta 0, and the note track holds exactly these events.
C14_ScenarioD ==
    (midiPc = "done" /\ ScenarioD) =>
        /\ midiDeltaEvents = ScenarioDTrackAt960
        /\ \A k \in 1 .. 3 : midiSortedEvents[k].absoluteTick = 0
        /\ \A k \in 4 .. 6 : midiSortedEvents[k].absoluteTick = 960
        /\ SubSeq(midiData, AfterChunk(midiData, 15) + 8, Len(midiData))
               = ScenarioDBytes

C14_ScenarioDWitness ==
    /\ midiPc = "done"
    /\ ScenarioD
    /\ Len(midiDeltaEvents) = 6

----------------------------------------------------------------------------
(***************************************************************************)
(* writeVariableLengthQuantity on its own, over the values a delta can be. *)
(***************************************************************************)
MaxSmallVlq == 40

\* The first value that no longer fits in four groups of seven bits.
VlqLimit == 2 ^ 28

\* Every small value, and the values around every power of two up to 2^30.
VlqValues ==
    0 .. MaxSmallVlq
    \cup { 2 ^ k + d : k \in 1 .. 30, d \in {-1, 0, 1} }

InitVlq ==
    /\ IdleButVlq
    /\ vlqValue \in VlqValues
    /\ vlqBytes = <<>>
    /\ vlqPc = "input"

WriteVariableLengthQuantity ==
    /\ UNCHANGED notVlqVars
    /\ vlqPc = "input"
    /\ vlqBytes' = writeVariableLengthQuantity(vlqValue)
    /\ vlqPc' = "done"
    /\ UNCHANGED vlqValue

NextVlq == WriteVariableLengthQuantity

SpecVlq == InitVlq /\ [][NextVlq]_vars

\* Reading a quantity back: the seven low bits of every byte, most
\* significant group first.
RECURSIVE DecodeVlq(_, _)
DecodeVlq(bytes, acc) ==
    IF bytes = <<>> THEN acc
    ELSE DecodeVlq(Tail(bytes), acc * 128 + (Head(bytes) % 128))

ValidVlq(bytes, v) ==
    /\ Len(bytes) \in 1 .. 4
    /\ \A k \in 1 .. Len(bytes) : bytes[k] \in 0 .. 255
    /\ \A k \in 1 .. Len(bytes) - 1 : bytes[k] >= 128
    /\ bytes[Len(bytes)] < 128
    /\ Len(bytes) > 1 => bytes[1] # 128
    /\ DecodeVlq(bytes, 0) = v

\* C11: for 0 <= v < 2^28 the encoding of v is 1 to 4 bytes, most significant
\* group first, bit 7 set on every byte but the last, no leading 0x80, and
\* decoding it gives v back.
C11_VlqRoundTrip ==
    (vlqPc = "done" /\ vlqValue < VlqLimit) => ValidVlq(vlqBytes, vlqValue)

\* The largest value of the range, encoded in four bytes.
C11_FourByteWitness ==
    /\ vlqPc = "done"
    /\ vlqValue = VlqLimit - 1
    /\ Len(vlqBytes) = 4

\* At 2^28 the encoding takes a fifth byte.
C11_FiveBytesAtLimit ==
    /\ vlqPc = "done"
    /\ vlqValue = VlqLimit
    /\ Len(vlqBytes) = 5

----------------------------------------------------------------------------
(***************************************************************************)
(* Pitch names.  The two segmenters name a frequency, the chord bank of    *)
(* extractChords names its notes by transposing templates, and the         *)
(* sequence-file encoder and the piano roll turn names into key numbers.   *)
(***************************************************************************)

\* The remainder operator of the language: the sign of the dividend.
Rem(a, b) == IF a >= 0 THEN a % b ELSE -((-a) % b)

\* A transposition that keeps the octave of the template.
transposeNote_sameOctave(note, semitones) ==
    LET match == matchNameOctave(note)
    IN  IF match = <<>> \/ indexOf(noteNames, match[1]) = -1 THEN note
        ELSE At0(noteNames, (indexOf(noteNames, match[1]) + semitones) % 12)
                 \o octaveChars(parseInt(match[2]))

transposeNote(note, semitones) ==
    LET match == matchNameOctave(note)
    IN  IF match = <<>> THEN note
        ELSE LET noteName == match[1]
                 octave == parseInt(match[2])
                 noteIndex == indexOf(noteNames, noteName)
                 newIndex == noteIndex + semitones
                 newNoteIndex == Rem(Rem(newIndex, 12) + 12, 12)
                 octaveChange == newIndex \div 12
             IN  IF noteIndex = -1 THEN note
                 ELSE At0(noteNames, newNoteIndex)
                          \o octaveChars(octave + octaveChange)

\* noteToMidi of the piano roll: the same pattern and table, written out
\* again in the component.
noteToMidi_timeline(note) ==
    LET parsed == parseNote(note)
    IN  IF parsed = <<>> THEN 60
        ELSE (IF parsed.noteName \in DOMAIN NOTE_MAP
              THEN NOTE_MAP[parsed.noteName] ELSE 0)
                 + (parsed.octave + 1) * 12

MaxSemitone == 107
StepsPerHalfStep == 4

\* Distances from C0 in fractions of a half step, up to the top of octave 8.
PitchHalfSteps ==
    { Frac(k, StepsPerHalfStep) :
          k \in 0 .. (MaxSemitone + 1) * StepsPerHalfStep - 1 }

\* The notes of the chord templates of extractChords.
TemplateNotes ==
    { <<"a", "2">>, <<"b", "2">>, <<"c", "3">>, <<"d", "3">>, <<"e", "3">>,
      <<"f", "3">>, <<"g", "3">>, <<"a", "3">>, <<"b", "3">>, <<"c", "4">>,
      <<"d", "4">>, <<"e", "4">> }

InitPitch ==
    /\ IdleButPitch
    /\ pitchSource \in {"single", "batch", "chords"}
    /\ IF pitchSource = "chords" THEN pitchHalfSteps = Whole(0)
       ELSE pitchHalfSteps \in PitchHalfSteps
    /\ pitchName = <<>>
    /\ pitchKey = 0
    /\ pitchKey_timeline = 0
    /\ pitchPc = "input"

\* frequencyToNote of the single-file page.
FrequencyToNote ==
    /\ UNCHANGED notPitchVars
    /\ pitchSource = "single"
    /\ pitchPc = "input"
    /\ pitchName' = halfStepsToNote(pitchHalfSteps)
    /\ pitchPc' = "named"
    /\ UNCHANGED <<pitchSource, pitchHalfSteps, pitchKey, pitchKey_timeline>>

\* frequencyToNote of the batch page.
FrequencyToNote_batch ==
    /\ UNCHANGED notPitchVars
    /\ pitchSource = "batch"
    /\ pitchPc = "input"
    /\ pitchName' = halfStepsToNote_batch(pitchHalfSteps)
    /\ pitchPc' = "named"
    /\ UNCHANGED <<pitchSource, pitchHalfSteps, pitchKey, pitchKey_timeline>>

\* transposeNote on a template note, by any amount a key can ask for.
TransposeNote ==
    /\ UNCHANGED notPitchVars
    /\ pitchSource = "chords"
    /\ pitchPc = "input"
    /\ \E note \in TemplateNotes, semitones \in -11 .. 11 :
           /\ pitchName' = transposeNote(note, semitones)
           /\ pitchHalfSteps' =
                  Whole(indexOf(noteNames, matchNameOctave(note)[1])
                            + 12 * parseInt(matchNameOctave(note)[2])
                            + semitones)
    /\ pitchPc' = "named"
    /\ UNCHANGED <<pitchSource, pitchKey, pitchKey_timeline>>

\* The encoder and the piano roll read the name.
NoteToMidi ==
    /\ UNCHANGED notPitchVars
    /\ pitchPc = "named"
    /\ pitchKey' = noteToMidi(pitchName)
    /\ pitchKey_timeline' = noteToMidi_timeline(pitchName)
    /\ pitchPc' = "done"
    /\ UNCHANGED <<pitchSource, pitchHalfSteps, pitchName>>

NextPitch ==
    \/ FrequencyToNote
    \/ FrequencyToNote_batch
    \/ TransposeNote
    \/ NoteToMidi

SpecPitch == InitPitch /\ [][NextPitch]_vars

\* A name as the segmenters and the chord generators write it: a name of
\* the chromatic table followed by one octave digit from 0 to 8.
EmittedName(name) ==
    /\ Len(name) \in 2 .. 3
    /\ indexOf(noteNames, SubSeq(name, 1, Len(name) - 1)) >= 0
    /\ name[Len(name)] \in DigitChars \ {"9"}

NamePitchClass(name) == indexOf(noteNames, SubSeq(name, 1, Len(name) - 1))
NameOctave(name) == DigitValue(name[Len(name)])

\* The name of semitone index n: pitch class n mod 12 in octave n div 12.
NameOfIndex(n) == At0(noteNames, n % 12) \o <<DigitChar(n \div 12)>>

\* C15: for every emitted name (a-g, optional s, octave 0..8) noteToMidi
\* is 12 x (octave + 1) + pitch class, so the name of semitone index n is
\* encoded as key n + 12, and the piano roll's noteToMidi gives the same
\* number.
C15_NameToKey ==
    (pitchPc = "done" /\ EmittedName(pitchName)) =>
        /\ pitchKey = 12 * (NameOctave(pitchName) + 1) + NamePitchClass(pitchName)
        /\ pitchKey_timeline = pitchKey
        /\ pitchName = NameOfIndex(pitchKey - 12)
        /\ pitchName = <<"a", "4">> => pitchKey = 69
        /\ pitchName = <<"c", "4">> => pitchKey = 60

\* A sharp name from each source has been encoded.
C15_SharpWitness ==
    /\ pitchPc = "done"
    /\ pitchName = <<"a", "s", "3">>
    /\ pitchKey = 58
    /\ pitchKey_timeline = 58

\* Inside the band of frequencies both pages accept: 80 Hz is 27.5 half
\* steps above C0, and the single-file detectPitch stops at 1000 Hz, 71.2
\* half steps above C0.
InAcceptedBand(halfSteps) ==
    /\ FracLe(Frac(55, 2), halfSteps)
    /\ FracLe(halfSteps, Frac(712, 10))

\* C16: for every frequency in the accepted band the two conversions give
\* the same name: pitch class n mod 12 and octave n div 12 of the rounded
\* semitone index n.
C16_ConversionsAgree ==
    (pitchPc \in {"named", "done"} /\ pitchSource \in {"single", "batch"}
        /\ InAcceptedBand(pitchHalfSteps))
    => pitchName = NameOfIndex(FracRound(pitchHalfSteps))

\* The batch conversion alone names the rounded index.
C16_BatchNamesRoundedIndex ==
    (pitchPc \in {"named", "done"} /\ pitchSource = "batch"
        /\ InAcceptedBand(pitchHalfSteps))
    => pitchName = NameOfIndex(FracRound(pitchHalfSteps))

\* Half a step below C4 the single-file conversion names C3.
C16_SingleOctaveBelow ==
    /\ pitchPc = "named"
    /\ pitchSource = "single"
    /\ pitchHalfSteps = Frac(95, 2)
    /\ pitchName = <<"c", "3">>

----------------------------------------------------------------------------
(***************************************************************************)
(* Chord generation.  The single-file page picks, for each two-second      *)
(* segment, a chord of a bank transposed to the key (extractChords); the   *)
(* batch page lays a four-chord progression of the key over the melody     *)
(* (generateChords).  Keys and chord names are texts, note names are       *)
(* sequences of characters.                                                *)
(***************************************************************************)

\* The characters of a text.
chars(text) == [i \in 1 .. Len(text) |-> SubSeq(text, i, i)]

\* String.prototype.replace with a string pattern: the first occurrence.
replace(text, part, by) ==
    IF ~Contains(text, part) THEN text
    ELSE LET at == CHOOSE i \in 1 .. (Len(text) - Len(part) + 1) :
                       /\ SubSeq(text, i, i + Len(part) - 1) = part
                       /\ \A j \in 1 .. (i - 1) :
                              SubSeq(text, j, j + Len(part) - 1) # part
         IN  SubSeq(text, 1, at - 1) \o by
                 \o SubSeq(text, at + Len(part), Len(text))

noteToSemitone ==
    ("C" :> 0) @@ ("C#" :> 1) @@ ("C#/Db" :> 1) @@ ("Db" :> 1)
        @@ ("D" :> 2) @@ ("D#" :> 3) @@ ("D#/Eb" :> 3) @@ ("Eb" :> 3)
        @@ ("E" :> 4)
        @@ ("F" :> 5) @@ ("F#" :> 6) @@ ("F#/Gb" :> 6) @@ ("Gb" :> 6)
        @@ ("G" :> 7) @@ ("G#" :> 8) @@ ("G#/Ab" :> 8) @@ ("Ab" :> 8)
        @@ ("A" :> 9) @@ ("A#" :> 10) @@ ("A#/Bb" :> 10) @@ ("Bb" :> 10)
        @@ ("B" :> 11)

\* key.replace("m", "").replace("/Db", "")...replace("/Bb", "")
keyRoot(key) ==
    replace(replace(replace(replace(replace(replace(key,
        "m", ""), "/Db", ""), "/Eb", ""), "/Gb", ""), "/Ab", ""), "/Bb", "")

\* noteToSemitone[root] ?? 0
semitoneOf(root) ==
    IF root \in DOMAIN noteToSemitone THEN noteToSemitone[root] ELSE 0

getKeyTransposition(fromKey, toKey) ==
    semitoneOf(keyRoot(toKey)) - semitoneOf(keyRoot(fromKey))

\* baseName.match(/^([A-G]#?)(.*)$/), and the root moved by semitones.
getChordNameInKey(baseName, semitones) ==
    IF Len(baseName) = 0 \/ SubSeq(baseName, 1, 1) \notin UpperLetters
    THEN baseName
    ELSE LET rootLen == IF Len(baseName) >= 2 /\ SubSeq(baseName, 2, 2) = "#"
                        THEN 2 ELSE 1
             root == SubSeq(baseName, 1, rootLen)
             suffix == SubSeq(baseName, rootLen + 1, Len(baseName))
             rootIndex == indexOf(keyNoteNames, root)
             newIndex == Rem(Rem(rootIndex + semitones, 12) + 12, 12)
         IN  IF rootIndex = -1 THEN baseName
             ELSE At0(keyNoteNames, newIndex) \o suffix

Template(first, second, third, name) ==
    [notes |-> <<first, second, third>>, name |-> name]

majorChordTemplates ==
    << Template(<<"c", "3">>, <<"e", "3">>, <<"g", "3">>, "C"),
       Template(<<"d", "3">>, <<"f", "3">>, <<"a", "3">>, "Dm"),
       Template(<<"e", "3">>, <<"g", "3">>, <<"b", "3">>, "Em"),
       Template(<<"f", "3">>, <<"a", "3">>, <<"c", "4">>, "F"),
       Template(<<"g", "3">>, <<"b", "3">>, <<"d", "4">>, "G"),
       Template(<<"a", "3">>, <<"c", "4">>, <<"e", "4">>, "Am") >>

minorChordTemplates ==
    << Template(<<"a", "2">>, <<"c", "3">>, <<"e", "3">>, "Am"),
       Template(<<"b", "2">>, <<"d", "3">>, <<"f", "3">>, "Bdim"),
       Template(<<"c", "3">>, <<"e", "3">>, <<"g", "3">>, "C"),
       Template(<<"d", "3">>, <<"f", "3">>, <<"a", "3">>, "Dm"),
       Template(<<"e", "3">>, <<"g", "3">>, <<"b", "3">>, "Em"),
       Template(<<"f", "3">>, <<"a", "3">>, <<"c", "4">>, "F"),
       Template(<<"g", "3">>, <<"b", "3">>, <<"d", "4">>, "G") >>

\* detectedKey.includes("m") && !detectedKey.includes("maj")
isMinorName(name) == Contains(name, "m") /\ ~Contains(name, "maj")

\* templates.map(chord => ...): every note and the name moved by the
\* transposition.
transposeTemplates(templates, transposition) ==
    [k \in 1 .. Len(templates) |->
        [notes |-> [j \in 1 .. Len(templates[k].notes) |->
                       transposeNote(templates[k].notes[j], transposition)],
         name |-> getChordNameInKey(templates[k].name, transposition)]]

transpositionFor(key) ==
    getKeyTransposition(IF isMinorName(key) THEN "Am" ELSE "C",
                        key)

transposedChords(key) ==
    transposeTemplates(IF isMinorName(key) THEN minorChordTemplates
                       ELSE majorChordTemplates,
                       transpositionFor(key))

segmentDuration == 2

\* As many segments as fit, without the cap.
numSegments_uncapped(duration) ==
    FracFloor(FracDiv(duration, Whole(segmentDuration)))

\* Math.min(8, Math.floor(duration / segmentDuration))
numSegments(duration) ==
    IF FracFloor(FracDiv(duration, Whole(segmentDuration))) < 8
    THEN FracFloor(FracDiv(duration, Whole(segmentDuration)))
    ELSE 8

\* Math.floor((energy * 1000) % transposedChords.length), for energy >= 0.
chordIndexOf(energy, length) ==
    LET scaled == FracMul(energy, Whole(1000))
    IN  FracFloor(FracSub(scaled,
            Whole(length * FracFloor(FracDiv(scaled, Whole(length))))))

\* extractChords on a recording whose segment i has the summed magnitude
\* energyOf[i] (the list repeats when there are more segments).
extractChords(energyOf, duration, key) ==
    LET bank == transposedChords(key)
        count == IF numSegments(duration) > 0 THEN numSegments(duration) ELSE 0
    IN  [k \in 1 .. count |->
            LET i == k - 1
                energy == energyOf[(i % Len(energyOf)) + 1]
                chord == At0(bank, chordIndexOf(energy, Len(bank)))
            IN  [notes |-> chord.notes, name |-> chord.name,
                 time |-> Whole(i * segmentDuration),
                 duration |-> Whole(segmentDuration)]]

chordProgressions ==
    ("C" :> <<"C", "Am", "F", "G">>) @@ ("G" :> <<"G", "Em", "C", "D">>)
        @@ ("D" :> <<"D", "Bm", "G", "A">>)
        @@ ("A" :> <<"A", "F#m", "D", "E">>)
        @@ ("E" :> <<"E", "C#m", "A", "B">>)
        @@ ("F" :> <<"F", "Dm", "Bb", "C">>)
        @@ ("Cm" :> <<"Cm", "Ab", "Eb", "G">>)
        @@ ("Am" :> <<"Am", "F", "C", "G">>)
        @@ ("Em" :> <<"Em", "C", "G", "D">>)
        @@ ("Dm" :> <<"Dm", "Bb", "F", "C">>)

\* chordProgressions[key] || chordProgressions["C"]
progressionOf(key) ==
    IF key \in DOMAIN chordProgressions THEN chordProgressions[key]
    ELSE chordProgressions["C"]

\* chordName.replace(/m$/, "").replace("#", "s").toLowerCase(), as the
\* characters of the name.
rootNoteOf(chordName) ==
    LET noM == IF EndsWith(chordName, "m")
               THEN SubSeq(chordName, 1, Len(chordName) - 1) ELSE chordName
        sharp == replace(noM, "#", "s")
    IN  [i \in 1 .. Len(sharp) |-> toLowerCase(SubSeq(sharp, i, i))]

\* The chord generateChords builds for position i (from 0) of the
\* progression; its notes are empty when the root is not a name of the
\* table, and then the chord is not pushed.
progressionChord(chordName, i, chordLength) ==
    LET rootIndex == indexOf(noteNames, rootNoteOf(chordName))
        intervals == IF isMinorName(chordName) THEN <<0, 3, 7>> ELSE <<0, 4, 7>>
    IN  [notes |-> IF rootIndex >= 0
                   THEN [j \in 1 .. 3 |->
                            At0(noteNames, (rootIndex + intervals[j]) % 12)
                                \o <<"4">>]
                   ELSE <<>>,
         name |-> chordName,
         time |-> FracMul(Whole(i), chordLength),
         duration |-> chordLength]

generateChords(notes, key) ==
    IF Len(notes) < 4 THEN <<>>
    ELSE LET progression == progressionOf(key)
             last == notes[Len(notes)]
             duration == FracAdd(last.time, orElse(last.duration, Frac(1, 4)))
             chordLength == FracDiv(duration, Whole(Len(progression)))
         IN  SelectSeq([i \in 1 .. Len(progression) |->
                           progressionChord(progression[i], i - 1, chordLength)],
                       LAMBDA chord : chord.notes # <<>>)

MaxHalfSeconds == 40

MUSICAL_KEYS ==
    <<"C", "C#/Db", "D", "D#/Eb", "E", "F", "F#/Gb", "G", "G#/Ab", "A",
      "A#/Bb", "B", "Cm", "C#m/Dbm", "Dm", "D#m/Ebm", "Em", "Fm", "F#m/Gbm",
      "Gm", "G#m/Abm", "Am", "A#m/Bbm", "Bm">>

\* The keys that reach a chord generator, each with its tonic and mode:
\* the 24 labels of detectKey and the 24 keys of the parameter panel.
ChordKeys ==
    { [key |-> keyNoteNames[i], tonic |-> i - 1, minor |-> FALSE] :
          i \in 1 .. 12 }
    \cup { [key |-> keyNoteNames[i] \o "m", tonic |-> i - 1, minor |-> TRUE] :
               i \in 1 .. 12 }
    \cup { [key |-> MUSICAL_KEYS[i], tonic |-> (i - 1) % 12, minor |-> i > 12] :
               i \in 1 .. 24 }

\* Summed magnitudes of the segments: silence, and sums that select
\* different entries of the bank.
ChordEnergies ==
    { <<Whole(0)>>, <<Frac(1, 250), Frac(7, 1000)>>,
      <<Frac(12345, 1000), Frac(1, 3)>>, <<Frac(6999, 1000)>> }

ChordNote(name, time) ==
    [note |-> name, time |-> time, duration |-> Frac(1, 2),
     velocity |-> Frac(4, 5)]

ChordMelodies ==
    { [k \in 1 .. n |-> ChordNote(At0(noteNames, (2 * k) % 12) \o <<"4">>,
                                  Frac(k - 1, 2))] : n \in 3 .. 5 }

InitChords ==
    /\ IdleButChords
    /\ chordsPath \in {"single", "batch", "transpose"}
    /\ IF chordsPath = "transpose" THEN chordsKey = ""
       ELSE \E k \in ChordKeys : chordsKey = k.key
    /\ IF chordsPath = "single"
       THEN /\ chordsSeconds \in { Frac(h, 2) : h \in 0 .. MaxHalfSeconds }
            /\ chordsEnergies \in ChordEnergies
       ELSE chordsSeconds = Whole(0) /\ chordsEnergies = <<>>
    /\ IF chordsPath = "batch" THEN chordsMelody \in ChordMelodies
       ELSE chordsMelody = <<>>
    /\ chordsTransposition = 0
    /\ chordsBank = <<>>
    /\ chordsResult = <<>>
    /\ chordsPc = "input"

\* extractChords(channelData, sampleRate, duration, detectedKey)
ExtractChords ==
    /\ UNCHANGED notChordsVars
    /\ chordsPath = "single"
    /\ chordsPc = "input"
    /\ chordsTransposition' = transpositionFor(chordsKey)
    /\ chordsBank' = transposedChords(chordsKey)
    /\ chordsResult' = extractChords(chordsEnergies, chordsSeconds, chordsKey)
    /\ chordsPc' = "done"
    /\ UNCHANGED <<chordsPath, chordsKey, chordsSeconds, chordsEnergies,
                   chordsMelody>>

\* generateChords(notes, detectedKey)
GenerateChords ==
    /\ UNCHANGED notChordsVars
    /\ chordsPath = "batch"
    /\ chordsPc = "input"
    /\ chordsBank' = [i \in 1 .. Len(progressionOf(chordsKey)) |->
                         progressionChord(progressionOf(chordsKey)[i], i - 1,
                                          Whole(1))]
    /\ chordsResult' = generateChords(chordsMelody, chordsKey)
    /\ chordsPc' = "done"
    /\ UNCHANGED <<chordsPath, chordsKey, chordsSeconds, chordsEnergies,
                   chordsMelody, chordsTransposition>>

\* The map over the templates in extractChords, for any transposition two
\* keys can be apart.
TransposeTemplates ==
    /\ UNCHANGED notChordsVars
    /\ chordsPath = "transpose"
    /\ chordsPc = "input"
    /\ \E semitones \in -11 .. 11,
          templates \in {majorChordTemplates, minorChordTemplates} :
           /\ chordsTransposition' = semitones
           /\ chordsBank' = transposeTemplates(templates, semitones)
    /\ chordsPc' = "done"
    /\ UNCHANGED <<chordsPath, chordsKey, chordsSeconds, chordsEnergies,
                   chordsMelody, chordsResult>>

NextChords ==
    \/ ExtractChords
    \/ GenerateChords
    \/ TransposeTemplates

SpecChords == InitChords /\ [][NextChords]_vars

\* The number of half steps of a note name above C0.
Semitone(name) == 12 * NameOctave(name) + NamePitchClass(name)

\* The root of a chord name: its letter and sharp, as a pitch class.
ChordRoot(name) ==
    indexOf(keyNoteNames,
            IF Len(name) >= 2 /\ SubSeq(name, 2, 2) = "#"
            THEN SubSeq(name, 1, 2) ELSE SubSeq(name, 1, 1))

\* What follows the root in a chord name: "" (major), "m" or "dim".
ChordQuality(name) ==
    IF Len(name) >= 2 /\ SubSeq(name, 2, 2) = "#"
    THEN SubSeq(name, 3, Len(name)) ELSE SubSeq(name, 2, Len(name))

WholeMin(a, b) == IF a < b THEN a ELSE b

\* The chords extractChords returned are min(8, floor(duration / 2)) chords
\* of the bank, two seconds each, one after the other.
ChordPerSegment ==
    /\ Len(chordsResult) =
           WholeMin(8, chordsSeconds[1] \div (2 * chordsSeconds[2]))
    /\ Len(chordsResult) <= 8
    /\ FracLe(Whole(2 * Len(chordsResult)), chordsSeconds)
    /\ FracLt(chordsSeconds, Whole(2)) => chordsResult = <<>>
    /\ \A k \in 1 .. Len(chordsResult) :
           /\ chordsResult[k].time = Whole(2 * (k - 1))
           /\ chordsResult[k].duration = Whole(2)
           /\ \E b \in 1 .. Len(chordsBank) :
                  /\ chordsResult[k].notes = chordsBank[b].notes
                  /\ chordsResult[k].name = chordsBank[b].name

\* C17: extractChords returns exactly min(8, floor(duration / 2)) chords,
\* none for a duration under two seconds; chord i starts at 2 x i and lasts
\* 2, and is an existing entry of the chord bank.
C17_ChordCount ==
    (chordsPc = "done" /\ chordsPath = "single") => ChordPerSegment

\* A recording long enough for a ninth segment: eight chords, and not all
\* of them the same.
C17_CappedWitness ==
    /\ chordsPc = "done"
    /\ chordsPath = "single"
    /\ FracLe(Whole(18), chordsSeconds)
    /\ Len(chordsResult) = 8
    /\ chordsResult[1].name # chordsResult[2].name

\* A chord whose notes are the triad its name declares.
ValidTriad(chord) ==
    LET root == ChordRoot(chord.name)
        quality == ChordQuality(chord.name)
        third == IF quality = "" THEN 4 ELSE 3
        fifth == IF quality = "dim" THEN 6 ELSE 7
    IN  /\ chord.notes # <<>>
        /\ root >= 0
        /\ quality \in {"", "m", "dim"}
        /\ [j \in 1 .. Len(chord.notes) |-> NamePitchClass(chord.notes[j])]
               = <<root, (root + third) % 12, (root + fifth) % 12>>

\* The templates a bank of this length was made from.
TemplatesOf(bank) ==
    IF Len(bank) = Len(majorChordTemplates) THEN majorChordTemplates
    ELSE minorChordTemplates

\* Every note of the bank lies the transposition above its template note,
\* so the distances between the notes of a chord are those of the template.
TranspositionKeepsDistances ==
    \A k \in 1 .. Len(chordsBank) :
        \A j \in 1 .. Len(chordsBank[k].notes) :
            /\ Semitone(chordsBank[k].notes[j])
                   = Semitone(TemplatesOf(chordsBank)[k].notes[j])
                         + chordsTransposition
            /\ Semitone(chordsBank[k].notes[j])
                   - Semitone(chordsBank[k].notes[1])
                   = Semitone(TemplatesOf(chordsBank)[k].notes[j])
                         - Semitone(TemplatesOf(chordsBank)[k].notes[1])

\* C18: every chord either generator emits is the triad its name declares
\* (root, +4, +7 for a major name, root, +3, +7 for a minor one, root, +3,
\* +6 for a diminished one), and the transposition of extractChords, by any
\* amount in -11..11, keeps the distances between the notes of a template
\* chord, also across an octave boundary.
C18_ValidTriads ==
    chordsPc = "done" =>
        /\ \A k \in 1 .. Len(chordsResult) : ValidTriad(chordsResult[k])
        /\ chordsPath \in {"single", "transpose"} =>
               /\ \A k \in 1 .. Len(chordsBank) : ValidTriad(chordsBank[k])
               /\ TranspositionKeepsDistances

\* A bank moved down far enough that a template in octave 3 has notes in
\* octave 2 and octave 3.
C18_AcrossOctaveWitness ==
    /\ chordsPc = "done"
    /\ chordsPath = "transpose"
    /\ chordsTransposition = -5
    /\ chordsBank[1].notes = << <<"g", "2">>, <<"b", "2">>, <<"d", "3">> >>

\* Chords of a progression laid over a melody by the batch page.
C18_ProgressionReached ==
    /\ chordsPc = "done"
    /\ chordsPath = "batch"
    /\ Len(chordsResult) = 4
    /\ \E k \in 1 .. 4 : ChordQuality(chordsResult[k].name) = "m"

\* The tonic and the mode of the key that was handed in.
KeyOf(label) == CHOOSE k \in ChordKeys : k.key = label

TonicChordOfKey ==
    /\ ChordRoot(chordsBank[1].name) = KeyOf(chordsKey).tonic
    /\ ChordQuality(chordsBank[1].name)
           = (IF KeyOf(chordsKey).minor THEN "m" ELSE "")

\* C19: for every key that can reach a chord generator (the 24 labels of
\* detectKey and the 24 keys of the parameter panel) the first chord of
\* the bank or progression that is used is the tonic chord of that key:
\* its root is the key's tonic and its quality the key's mode.
C19_TonicChordOfKey ==
    (chordsPc = "done" /\ chordsPath \in {"single", "batch"})
        => TonicChordOfKey

\* extractChords for the labels detectKey returns and the major keys of the
\* panel.
C19_SingleFilePlainKeys ==
    (chordsPc = "done" /\ chordsPath = "single"
        /\ ~(KeyOf(chordsKey).minor /\ Contains(chordsKey, "/")))
        => TonicChordOfKey

\* generateChords for the ten keys that have a progression.
C19_BatchKnownKeys ==
    (chordsPc = "done" /\ chordsPath = "batch"
        /\ chordsKey \in DOMAIN chordProgressions)
        => TonicChordOfKey

\* The key C#m/Dbm of the panel gets the bank of C minor.
C19_MinorSlashKeyReached ==
    /\ chordsPc = "done"
    /\ chordsPath = "single"
    /\ chordsKey = "C#m/Dbm"
    /\ chordsBank[1].name = "Cm"

\* The key B gets the progression of C.
C19_FallbackProgressionReached ==
    /\ chordsPc = "done"
    /\ chordsPath = "batch"
    /\ chordsKey = "B"
    /\ chordsBank[1].name = "C"

----------------------------------------------------------------------------
(***************************************************************************)
(* One analysis of the single-file page, analyzeAudio, from the decoded    *)
(* buffer to setResult.  The stages are the ones modelled above; the       *)
(* actions below hand the result of one stage to the next, in the order    *)
(* of the code.  The buffer is given by its length and by what it holds:   *)
(* nothing but zero samples, or a recording that sounds.                   *)
(***************************************************************************)
\* The state no stage of the analysis touches.
offStageVars == <<runVars, batchVars, sensVars, editorVars>>

OffStageIdle == RunIdle /\ BatchIdle /\ SensIdle /\ EditorIdle

frameSize == 1024

\* The number of passes of for (let i = 0; i < length - size; i += hop).
framesOf(length, size, hop) ==
    IF length > size THEN ((length - size - 1) \div hop) + 1 ELSE 0

\* energies of detectTempo: the rms of every frame of 1024 samples.  The
\* recording that sounds has a loud frame every 43 frames, half a second.
energiesOf(length, sound) ==
    [i \in 1 .. framesOf(length, frameSize, hopSize) |->
        IF sound = "tone" /\ i % 43 = 1 THEN Frac(1, 50) ELSE Whole(0)]

\* What the loop of extractMelody reads of every frame of 4096 samples.
\* The recording that sounds alternates between C4 and D4.
melodyFramesOf(length, sound) ==
    [i \in 1 .. framesOf(length, frameSize_melody, hopSize_melody) |->
        IF sound = "tone"
        THEN [rms |-> Frac(1, 5), pitch |-> 48 + 2 * (i % 2)]
        ELSE Silence]

\* The summed magnitude of a segment of extractChords.
segmentEnergiesOf(sound) ==
    IF sound = "tone" THEN <<Frac(12345, 1000), Frac(1, 3)>>
    ELSE <<Whole(0)>>

LCM(m, n) == (m * n) \div GCD(m, n)

RECURSIVE commonDenominator(_)
commonDenominator(arr) ==
    IF arr = <<>> THEN 1
    ELSE LCM(Head(arr)[2], commonDenominator(Tail(arr)))

\* The histogram of extractMelody in whole units, as detectKey is modelled:
\* every bin times the common denominator of the bins.
wholeUnits(hist) ==
    [k \in 1 .. Len(hist) |->
        FracMul(hist[k], Whole(commonDenominator(hist)))[1]]

ScenarioLengths == {0, 1024, 4096, 6000, 44100, 88200, 220500}
ScenarioTargetKeys == {"", "G", "Am"}

ScenarioParams == { p \in AnalysisParams : p.timeSignature = <<"4", "/", "4">> }

\* After decodeAudioData: the first channel is in hand.
InitScenario ==
    /\ KeyIdle /\ QuantIdle /\ TempoIdle /\ SegIdle /\ MidiIdle /\ VlqIdle
    /\ PitchIdle /\ ChordsIdle /\ OffStageIdle
    /\ entry = "single"
    /\ analysisParams \in ScenarioParams
    /\ detectedTempo = 0
    /\ rawMelody = <<>>
    /\ melody = <<>>
    /\ chords = <<>>
    /\ estimatedTempo = 0
    /\ passedTempo = 0
    /\ passedTimeSignature = <<>>
    /\ strudelCode = <<>>
    /\ edits = 0
    /\ analysisPc = "idle"
    /\ scenarioSamples \in ScenarioLengths
    /\ scenarioSound \in {"silent", "tone"}
    /\ scenarioSound = "tone" => scenarioSamples \in {6000, 44100, 88200}
    /\ scenarioTargetKey \in ScenarioTargetKeys
    /\ scenarioPc = "decoded"

\* if (analysisParams.autoDetectTempo) estimatedTempo = detectTempo(...)
ScenarioDetectTempo ==
    /\ scenarioPc = "decoded"
    /\ IF analysisParams.autoDetectTempo
       THEN /\ tempoPath' = "single"
            /\ energies' = energiesOf(scenarioSamples, scenarioSound)
            /\ tempoPc' = "input"
            /\ UNCHANGED <<onsets, tempo_batch, bpm, bestBpm, bestScore,
                           detectedBpm>>
       ELSE UNCHANGED tempoVars
    /\ scenarioPc' = "tempo"
    /\ UNCHANGED <<scenarioSamples, scenarioSound, scenarioTargetKey>>
    /\ UNCHANGED <<keyVars, quantVars, analysisVars, segVars, midiVars,
                   vlqVars, pitchVars, offStageVars, chordsVars>>

\* extractMelody(channelData, sampleRate, analysisParams) is entered.
ScenarioExtractMelody ==
    /\ scenarioPc = "tempo"
    /\ analysisParams.autoDetectTempo => tempoPc = "done"
    /\ detectedTempo' = IF analysisParams.autoDetectTempo THEN detectedBpm
                        ELSE detectedTempo
    /\ segPath' = "single"
    /\ segFrames' = melodyFramesOf(scenarioSamples, scenarioSound)
    /\ segMinNoteDuration' = 50
    /\ segFrame' = 0
    /\ segLastNote' = <<>>
    /\ segNoteStartTime' = Whole(0)
    /\ segNotes' = <<>>
    /\ segHistogram' = [k \in 1 .. 12 |-> Whole(0)]
    /\ segResult' = <<>>
    /\ segPc' = "frames"
    /\ scenarioPc' = "melody"
    /\ UNCHANGED <<scenarioSamples, scenarioSound, scenarioTargetKey>>
    /\ UNCHANGED <<entry, analysisParams, rawMelody, melody, chords,
                   estimatedTempo, passedTempo, passedTimeSignature,
                   strudelCode, edits, analysisPc>>
    /\ UNCHANGED <<keyVars, quantVars, tempoVars, midiVars, vlqVars,
                   pitchVars, offStageVars, chordsVars>>

\* const { notes: rawMelody, pitchClassHistogram } = extractMelody(...);
\* if (analysisParams.autoDetectKey) detectedKey = detectKey(...)
ScenarioDetectKey ==
    /\ scenarioPc = "melody"
    /\ segPc = "done"
    /\ rawMelody' = segResult
    /\ IF scenarioTargetKey = ""
       THEN /\ keyPath' = "single"
            /\ pitchClassHistogram' = wholeUnits(segHistogram)
            /\ keyPc' = "input"
            /\ UNCHANGED <<keyNotes, chromaCounts, shift, bestKey, bestCorr,
                           detectedKey>>
       ELSE UNCHANGED keyVars
    /\ scenarioPc' = "key"
    /\ UNCHANGED <<scenarioSamples, scenarioSound, scenarioTargetKey>>
    /\ UNCHANGED <<entry, analysisParams, detectedTempo, melody, chords,
                   estimatedTempo, passedTempo, passedTimeSignature,
                   strudelCode, edits, analysisPc>>
    /\ UNCHANGED <<quantVars, tempoVars, segVars, midiVars, vlqVars,
                   pitchVars, offStageVars, chordsVars>>

\* extractChords(channelData, sampleRate, duration, detectedKey) is
\* entered, with audioBuffer.duration = length / sampleRate.
ScenarioExtractChords ==
    /\ scenarioPc = "key"
    /\ scenarioTargetKey = "" => keyPc = "done"
    /\ chordsPath' = "single"
    /\ chordsKey' = IF scenarioTargetKey = "" THEN detectedKey
                    ELSE scenarioTargetKey
    /\ chordsSeconds' = Frac(scenarioSamples, sampleRate)
    /\ chordsEnergies' = segmentEnergiesOf(scenarioSound)
    /\ chordsPc' = "input"
    /\ scenarioPc' = "chords"
    /\ UNCHANGED <<chordsMelody, chordsTransposition, chordsBank,
                   chordsResult>>
    /\ UNCHANGED <<scenarioSamples, scenarioSound, scenarioTargetKey>>
    /\ UNCHANGED <<keyVars, quantVars, analysisVars, tempoVars, segVars,
                   midiVars, vlqVars, pitchVars, offStageVars>>

\* The chords are in hand: quantizeNotes and generateStrudelCode follow.
ScenarioGenerate ==
    /\ scenarioPc = "chords"
    /\ chordsPc = "done"
    /\ chords' = chordsResult
    /\ analysisPc' = "input"
    /\ scenarioPc' = "generating"
    /\ UNCHANGED <<scenarioSamples, scenarioSound, scenarioTargetKey>>
    /\ UNCHANGED <<entry, analysisParams, detectedTempo, rawMelody, melody,
                   estimatedTempo, passedTempo, passedTimeSignature,
                   strudelCode, edits>>
    /\ UNCHANGED <<keyVars, quantVars, tempoVars, segVars, midiVars, vlqVars,
                   pitchVars, offStageVars, chordsVars>>

\* updateStatus("complete", ...); setResult({...})
ScenarioComplete ==
    /\ scenarioPc = "generating"
    /\ analysisPc = "done"
    /\ scenarioPc' = "complete"
    /\ UNCHANGED <<scenarioSamples, scenarioSound, scenarioTargetKey>>
    /\ UNCHANGED <<keyVars, quantVars, analysisVars, tempoVars, segVars,
                   midiVars, vlqVars, pitchVars, offStageVars, chordsVars>>

NextScenario ==
    \/ ScenarioDetectTempo
    \/ DetectTempoEnter
    \/ DetectTempoScan
    \/ DetectTempoReturn
    \/ ScenarioExtractMelody
    \/ ExtractMelodyFrame
    \/ ExtractMelodyFlush
    \/ ExtractMelodyReturn
    \/ ScenarioDetectKey
    \/ DetectKeyEnter
    \/ DetectKeyIterate
    \/ DetectKeyReturn
    \/ ScenarioExtractChords
    \/ ExtractChords
    \/ ScenarioGenerate
    \/ AnalyzeAudio
    \/ ScenarioComplete

SpecScenario == InitScenario /\ [][NextScenario]_vars

\* The stage the analysis is in has a step to take: no stage is left
\* waiting for a result that cannot come, and the one lookup that can
\* fail, transposedChords[chordIndex], finds a chord.
ScenarioProceeds ==
    /\ scenarioPc = "tempo" /\ analysisParams.autoDetectTempo
           => tempoPc \in {"input", "scan", "done"}
    /\ scenarioPc = "melody" => segPc \in {"frames", "return", "done"}
    /\ scenarioPc = "key" /\ scenarioTargetKey = ""
           => keyPc \in {"input", "loop", "done"}
    /\ scenarioPc = "chords" =>
           /\ chordsPc \in {"input", "done"}
           /\ \A k \in 1 .. Len(chordsEnergies) :
                  chordIndexOf(chordsEnergies[k],
                               Len(transposedChords(chordsKey)))
                      \in Range0(transposedChords(chordsKey))
    /\ scenarioPc = "generating" => analysisPc \in {"input", "done"}

\* What each stage returned for a buffer of zero samples, or of none.
ScenarioDefaults ==
    /\ segPc = "done" =>
           /\ segResult = <<>>
           /\ segHistogram = [k \in 1 .. 12 |-> Whole(0)]
    /\ tempoPc = "done" => detectedBpm = 120
    /\ keyPc = "done" => detectedKey = "C"
    /\ chordsPc = "done" =>
           /\ Len(chordsResult) =
                  WholeMin(8, scenarioSamples \div (2 * sampleRate))
           /\ \A k \in 1 .. Len(chordsResult) :
                  /\ chordsResult[k].notes = chordsBank[1].notes
                  /\ chordsResult[k].name = chordsBank[1].name
                  /\ chordsResult[k].time = Whole(2 * (k - 1))
                  /\ chordsResult[k].duration = Whole(2)
    /\ scenarioPc = "complete" =>
           /\ melody = <<>>
           /\ strudelCode.melody = RestPattern
           /\ chords = chordsResult
           /\ analysisParams.autoDetectTempo => estimatedTempo = 120

\* C20: for a buffer of nothing but zero samples, and for an empty buffer,
\* the analysis runs to its end without an error; extractMelody returns no
\* notes and a histogram of twelve zeros, detectTempo returns 120,
\* detectKey returns "C", the chord list is empty or one fixed by the
\* length and the key alone (the first chord of the key's bank in every
\* segment), and the melody notation is the rest-only pattern.
C20_SilenceIsNeverFatal ==
    (scenarioPc # "idle" /\ scenarioSound = "silent")
        => ScenarioProceeds /\ ScenarioDefaults

\* A finished analysis of five seconds of zero samples: two chords.
C20_ZeroSamplesWitness ==
    /\ scenarioPc = "complete"
    /\ scenarioSound = "silent"
    /\ scenarioSamples = 220500
    /\ scenarioTargetKey = ""
    /\ analysisParams.autoDetectTempo
    /\ estimatedTempo = 120
    /\ Len(chords) = 2
    /\ strudelCode.melody = RestPattern

\* A finished analysis of the empty buffer.
C20_EmptyBufferReached ==
    /\ scenarioPc = "complete"
    /\ scenarioSamples = 0
    /\ scenarioTargetKey = ""
    /\ analysisParams.autoDetectTempo
    /\ detectedKey = "C"
    /\ chords = <<>>
    /\ strudelCode.chords = RestPattern

\* A finished analysis of a recording that sounds: notes, and a tempo
\* other than the default.
C20_SoundingReached ==
    /\ scenarioPc = "complete"
    /\ scenarioSound = "tone"
    /\ melody # <<>>
    /\ analysisParams.autoDetectTempo
    /\ estimatedTempo # 120

----------------------------------------------------------------------------
(***************************************************************************)
(* The single-file page: the state file, processing, result and error,     *)
(* and one run of analyzeAudio as the steps between its awaits.  The       *)
(* calls into the browser (file.arrayBuffer, decodeAudioData,              *)
(* audioContext.close) return a promise, which resolves or rejects.        *)
(***************************************************************************)
null == <<>>

MaxRuns == 3     \* presses of the Analyze button
StagesAfterDecode == 6   \* waveform, tempo, melody and key, quantize, chords, notation

\* What a rejected promise carries: an Error with its message, or a value
\* that is no Error.
ThrownValues ==
    { [isError |-> TRUE, message |-> "Unable to decode audio data"],
      [isError |-> TRUE, message |-> "EncodingError"],
      [isError |-> FALSE, message |-> "aborted"] }

Thrown(by, value) ==
    [by |-> by, isError |-> value.isError, message |-> value.message]

\* err instanceof Error ? err.message : "Unknown error occurred"
errorMessage(err) ==
    IF err.isError THEN err.message ELSE "Unknown error occurred"

\* An error text that leaves out what the catch block caught.
errorText_plain(err) == "Error processing audio"

\* `Error processing audio: ${errorMessage}`
errorText(err) == "Error processing audio: " \o errorMessage(err)

RunFiles == {"take.wav", "song.mp3"}

InitRun ==
    /\ IdleButRun
    /\ runFile = ""
    /\ runProcessing = FALSE
    /\ runResult = null
    /\ runError = null
    /\ runThrown = null
    /\ runStages = 0
    /\ runClicks = 0
    /\ runDecodes = 0
    /\ runPc = "idle"

\* onFileSelect={setFile}; the uploader is disabled while processing.
SetFile ==
    /\ UNCHANGED notRunVars
    /\ ~runProcessing
    /\ runPc = "idle"
    /\ runFile = ""
    /\ runFile' \in RunFiles
    /\ UNCHANGED <<runProcessing, runResult, runError, runThrown, runStages,
                   runClicks, runDecodes, runPc>>

\* handleReset, the uploader's onClear.
HandleReset ==
    /\ UNCHANGED notRunVars
    /\ ~runProcessing
    /\ runPc = "idle"
    /\ runFile # ""
    /\ runFile' = ""
    /\ runResult' = null
    /\ runError' = null
    /\ runThrown' = null
    /\ UNCHANGED <<runProcessing, runStages, runClicks, runDecodes, runPc>>

\* The Analyze button, shown when file && !processing && !result, calls
\* analyzeAudio: setProcessing(true); setError(null); setResult(null).
AnalyzeAudioEnter ==
    /\ UNCHANGED notRunVars
    /\ runPc = "idle"
    /\ runFile # ""
    /\ ~runProcessing
    /\ runResult = null
    /\ runClicks < MaxRuns
    /\ runClicks' = runClicks + 1
    /\ runProcessing' = TRUE
    /\ runError' = null
    /\ runResult' = null
    /\ runThrown' = null
    /\ runStages' = 0
    /\ runPc' = "decoding"
    /\ UNCHANGED <<runFile, runDecodes>>

\* await file.arrayBuffer(); await audioContext.decodeAudioData(arrayBuffer)
DecodeAudioData ==
    /\ UNCHANGED notRunVars
    /\ runPc = "decoding"
    /\ runDecodes' = runDecodes + 1
    /\ \/ /\ runPc' = "stages"
          /\ UNCHANGED runThrown
       \/ \E value \in ThrownValues :
              /\ runThrown' = Thrown("decodeAudioData", value)
              /\ runPc' = "catch"
    /\ UNCHANGED <<runFile, runProcessing, runResult, runError, runStages,
                   runClicks>>

\* One of the stages between the decoding and setResult.
AnalyzeAudioStage ==
    /\ UNCHANGED notRunVars
    /\ runPc = "stages"
    /\ runStages < StagesAfterDecode
    /\ runStages' = runStages + 1
    /\ UNCHANGED <<runFile, runProcessing, runResult, runError, runThrown,
                   runClicks, runDecodes, runPc>>

\* updateStatus("complete", ...); setResult({...})
SetResult ==
    /\ UNCHANGED notRunVars
    /\ runPc = "stages"
    /\ runStages = StagesAfterDecode
    /\ runResult' = <<[file |-> runFile, run |-> runClicks]>>
    /\ runPc' = "closing"
    /\ UNCHANGED <<runFile, runProcessing, runError, runThrown, runStages,
                   runClicks, runDecodes>>

\* await audioContext.close(), still inside the try block.
AudioContextClose ==
    /\ UNCHANGED notRunVars
    /\ runPc = "closing"
    /\ \/ /\ runPc' = "finally"
          /\ UNCHANGED runThrown
       \/ /\ runThrown' =
                 Thrown("close", [isError |-> TRUE,
                                  message |-> "InvalidStateError"])
          /\ runPc' = "catch"
    /\ UNCHANGED <<runFile, runProcessing, runResult, runError, runStages,
                   runClicks, runDecodes>>

\* catch (err) { setError(`Error processing audio: ${errorMessage}`) }
AnalyzeAudioCatch ==
    /\ UNCHANGED notRunVars
    /\ runPc = "catch"
    /\ runError' = <<errorText(runThrown)>>
    /\ runPc' = "finally"
    /\ UNCHANGED <<runFile, runProcessing, runResult, runThrown, runStages,
                   runClicks, runDecodes>>

\* finally { setProcessing(false) }
AnalyzeAudioFinally ==
    /\ UNCHANGED notRunVars
    /\ runPc = "finally"
    /\ runProcessing' = FALSE
    /\ runPc' = "idle"
    /\ UNCHANGED <<runFile, runResult, runError, runThrown, runStages,
                   runClicks, runDecodes>>

NextRun ==
    \/ SetFile
    \/ HandleReset
    \/ AnalyzeAudioEnter
    \/ DecodeAudioData
    \/ AnalyzeAudioStage
    \/ SetResult
    \/ AudioContextClose
    \/ AnalyzeAudioCatch
    \/ AnalyzeAudioFinally

SpecRun == InitRun /\ [][NextRun]_vars

\* A run has ended and the page is at rest.
RunCompleted == runPc = "idle" /\ runClicks > 0

DecodeFailed == runThrown # null /\ runThrown.by = "decodeAudioData"

\* A failed decoding: no stage after it ran, there is no result, the
\* message carries the text of the Error that was thrown, processing is
\* false again, and decodeAudioData is called once for each press of the
\* button.
DecodeFailureReported ==
    /\ DecodeFailed =>
           /\ runStages = 0
           /\ runResult = null
           /\ RunCompleted =>
                  /\ runError # null
                  /\ runThrown.isError
                         => Contains(runError[1], runThrown.message)
    /\ runPc = "idle" => ~runProcessing
    /\ runDecodes <= runClicks

\* C21: a failed decoding runs no later stage, leaves the result null, sets
\* the error to a message holding the text of the decode error, puts
\* processing back to false and retries nothing; and after any completed
\* run of analyzeAudio a result and an error never exist together.
C21_DecodeFailureOnly ==
    /\ DecodeFailureReported
    /\ RunCompleted => ~(runResult # null /\ runError # null)

\* What holds of the failed decoding alone.
C21_DecodeFailureReported == DecodeFailureReported

\* A run that failed in decodeAudioData and has ended.
C21_DecodeFailedReached ==
    /\ RunCompleted
    /\ DecodeFailed
    /\ runError = <<"Error processing audio: Unable to decode audio data">>
    /\ runResult = null

\* A run whose result was set and whose audioContext.close() then rejected.
C21_ResultAndErrorReached ==
    /\ RunCompleted
    /\ runResult # null
    /\ runError = <<"Error processing audio: InvalidStateError">>

----------------------------------------------------------------------------
(***************************************************************************)
(* The batch page: the queue of files, the results, and one run of         *)
(* processFiles as the steps between its awaits.  The uploader (select,    *)
(* remove, clear) is disabled while isProcessing; the Stop button shows    *)
(* while isProcessing, the Process and Reset buttons while not.  The ids   *)
(* handleFilesSelect gives out are distinct.                               *)
(***************************************************************************)
MaxBatchFiles == 3     \* files selected over the life of the page

\* A filter that lets every file through.
pendingOf_all(fileList) == fileList

\* files.filter(f => f.status === "pending")
pendingOf(fileList) == SelectSeq(fileList, LAMBDA f : f.status = "pending")

pendingCount == Len(pendingOf(batchFiles))

completedCount ==
    Len(SelectSeq(batchFiles, LAMBDA f : f.status = "completed"))

\* prev.map(f => f.id === batchFile.id ? { ...f, status } : f)
withStatus(fileList, id, status) ==
    [i \in 1 .. Len(fileList) |->
        IF fileList[i].id = id THEN [fileList[i] EXCEPT !.status = status]
        ELSE fileList[i]]

\* prev.filter(f => f.id !== id)
withoutId(list, id) == SelectSeq(list, LAMBDA f : f.id # id)

\* if (!processingRef.current) break; as a loop that never looks at the
\* flag.
stopRequested_never(flag) == FALSE

\* if (!processingRef.current) break;
stopRequested(flag) == ~flag

\* const pendingFiles = files.filter(...), by id.
pendingFilesOf(fileList) ==
    [i \in 1 .. Len(pendingOf(fileList)) |-> pendingOf(fileList)[i].id]

\* The entry the try block appends to results.
resultEntry_alsoError(id) == [id |-> id, result |-> TRUE, error |-> TRUE]

resultEntry(id) == [id |-> id, result |-> TRUE, error |-> FALSE]

\* The entry the catch block appends to results.
errorEntry(id) == [id |-> id, result |-> FALSE, error |-> TRUE]

InitBatch ==
    /\ IdleButBatch
    /\ batchFiles = <<>>
    /\ batchResults = <<>>
    /\ isProcessing = FALSE
    /\ processingRef = FALSE
    /\ pendingFiles = <<>>
    /\ batchIndex = 0
    /\ batchNextId = 0
    /\ batchStopped = FALSE
    /\ batchResumes = FALSE
    /\ batchStarted = <<>>
    /\ batchPc = "idle"

\* handleFilesSelect(newFiles): one or two files are appended as pending.
HandleFilesSelect ==
    /\ UNCHANGED notBatchVars
    /\ ~isProcessing
    /\ \E n \in 1 .. 2 :
           /\ batchNextId + n <= MaxBatchFiles
           /\ batchFiles' = batchFiles \o
                  [k \in 1 .. n |->
                      [id |-> batchNextId + k, status |-> "pending"]]
           /\ batchNextId' = batchNextId + n
    /\ UNCHANGED <<batchResults, isProcessing, processingRef, pendingFiles,
                   batchIndex, batchStopped, batchStarted, batchPc, batchResumes>>

\* handleRemoveFile(id)
HandleRemoveFile ==
    /\ UNCHANGED notBatchVars
    /\ ~isProcessing
    /\ \E i \in 1 .. Len(batchFiles) :
           /\ batchFiles' = withoutId(batchFiles, batchFiles[i].id)
           /\ batchResults' = withoutId(batchResults, batchFiles[i].id)
    /\ UNCHANGED <<isProcessing, processingRef, pendingFiles, batchIndex,
                   batchNextId, batchStopped, batchStarted, batchPc, batchResumes>>

\* handleClearAll
HandleClearAll ==
    /\ UNCHANGED notBatchVars
    /\ ~isProcessing
    /\ batchFiles # <<>>
    /\ batchFiles' = <<>>
    /\ batchResults' = <<>>
    /\ UNCHANGED <<isProcessing, processingRef, pendingFiles, batchIndex,
                   batchNextId, batchStopped, batchStarted, batchPc, batchResumes>>

\* The Process button: processFiles up to the loop.
ProcessFiles ==
    /\ UNCHANGED notBatchVars
    /\ batchPc = "idle"
    /\ ~isProcessing
    /\ pendingCount > 0
    /\ pendingFiles' = pendingFilesOf(batchFiles)
    /\ isProcessing' = TRUE
    /\ processingRef' = TRUE
    /\ batchIndex' = 0
    /\ batchStopped' = FALSE
    /\ batchResumes' = batchStopped
    /\ batchPc' = "loop"
    /\ UNCHANGED <<batchFiles, batchResults, batchNextId, batchStarted>>

\* The head of the loop: leave it at the end of pendingFiles or when the
\* flag is down, else set the file to "processing" and call
\* analyzeAudioFile.
ProcessFilesNext ==
    /\ UNCHANGED notBatchVars
    /\ batchPc = "loop"
    /\ IF batchIndex >= Len(pendingFiles) \/ stopRequested(processingRef)
       THEN /\ batchPc' = "end"
            /\ UNCHANGED <<batchFiles, batchStarted>>
       ELSE /\ batchFiles' = withStatus(batchFiles,
                                        pendingFiles[batchIndex + 1],
                                        "processing")
            /\ batchStarted' =
                   Append(batchStarted, pendingFiles[batchIndex + 1])
            /\ batchPc' = "analyzing"
    /\ UNCHANGED <<batchResults, isProcessing, processingRef, pendingFiles,
                   batchIndex, batchNextId, batchStopped, batchResumes>>

\* await analyzeAudioFile(...) returns: the file is completed and its
\* result appended.
AnalyzeAudioFileReturns ==
    /\ UNCHANGED notBatchVars
    /\ batchPc = "analyzing"
    /\ batchFiles' = withStatus(batchFiles, pendingFiles[batchIndex + 1],
                                "completed")
    /\ batchResults' =
           Append(batchResults, resultEntry(pendingFiles[batchIndex + 1]))
    /\ batchIndex' = batchIndex + 1
    /\ batchPc' = "loop"
    /\ UNCHANGED <<isProcessing, processingRef, pendingFiles, batchNextId,
                   batchStopped, batchStarted, batchResumes>>

\* await analyzeAudioFile(...) throws: the file is in error and the
\* message appended.
AnalyzeAudioFileThrows ==
    /\ UNCHANGED notBatchVars
    /\ batchPc = "analyzing"
    /\ batchFiles' = withStatus(batchFiles, pendingFiles[batchIndex + 1],
                                "error")
    /\ batchResults' =
           Append(batchResults, errorEntry(pendingFiles[batchIndex + 1]))
    /\ batchIndex' = batchIndex + 1
    /\ batchPc' = "loop"
    /\ UNCHANGED <<isProcessing, processingRef, pendingFiles, batchNextId,
                   batchStopped, batchStarted, batchResumes>>

\* setIsProcessing(false); processingRef.current = false
ProcessFilesEnd ==
    /\ UNCHANGED notBatchVars
    /\ batchPc = "end"
    /\ isProcessing' = FALSE
    /\ processingRef' = FALSE
    /\ batchPc' = "idle"
    /\ UNCHANGED <<batchFiles, batchResults, pendingFiles, batchIndex,
                   batchNextId, batchStopped, batchStarted, batchResumes>>

\* The Stop button: stopProcessing.
StopProcessing ==
    /\ UNCHANGED notBatchVars
    /\ isProcessing
    /\ ~batchStopped
    /\ processingRef' = FALSE
    /\ batchStopped' = TRUE
    /\ UNCHANGED <<batchFiles, batchResults, isProcessing, pendingFiles,
                   batchIndex, batchNextId, batchStarted, batchPc, batchResumes>>

\* The Reset button: resetAll.
ResetAll ==
    /\ UNCHANGED notBatchVars
    /\ ~isProcessing
    /\ completedCount > 0
    /\ processingRef' = FALSE
    /\ batchFiles' = <<>>
    /\ batchResults' = <<>>
    /\ isProcessing' = FALSE
    /\ UNCHANGED <<pendingFiles, batchIndex, batchNextId, batchStopped,
                   batchStarted, batchPc, batchResumes>>

NextBatch ==
    \/ HandleFilesSelect
    \/ HandleRemoveFile
    \/ HandleClearAll
    \/ ProcessFiles
    \/ ProcessFilesNext
    \/ AnalyzeAudioFileReturns
    \/ AnalyzeAudioFileThrows
    \/ ProcessFilesEnd
    \/ StopProcessing
    \/ ResetAll

SpecBatch == InitBatch /\ [][NextBatch]_vars

\* The run goes on whenever it can: the loop head, the analysis of a file
\* (which returns or throws) and the end of processFiles are not put off
\* for ever.
SpecBatchLive ==
    /\ SpecBatch
    /\ WF_vars(ProcessFilesNext)
    /\ WF_vars(AnalyzeAudioFileReturns \/ AnalyzeAudioFileThrows)
    /\ WF_vars(ProcessFilesEnd)

\* Where a file stands in the list, 0 when it is not there.
positionOf(id) ==
    IF \E i \in 1 .. Len(batchFiles) : batchFiles[i].id = id
    THEN CHOOSE i \in 1 .. Len(batchFiles) : batchFiles[i].id = id
    ELSE 0

statusOf(id) ==
    IF positionOf(id) = 0 THEN "removed" ELSE batchFiles[positionOf(id)].status

BatchIds == 1 .. MaxBatchFiles

\* The number of files of the run the loop has set to "processing".
startedInRun ==
    batchIndex + (IF batchPc = "analyzing" THEN 1 ELSE 0)

AtMostOneProcessing ==
    Cardinality({ i \in 1 .. Len(batchFiles) :
                    batchFiles[i].status = "processing" }) <= 1

\* The files of the run are taken in the order of the list, and those
\* started so far are the first of them.
StartedInListOrder ==
    isProcessing =>
        /\ \A i \in 1 .. Len(pendingFiles), j \in 1 .. Len(pendingFiles) :
               i < j => positionOf(pendingFiles[i]) < positionOf(pendingFiles[j])
        /\ startedInRun <= Len(batchStarted)
        /\ SubSeq(batchStarted, Len(batchStarted) - startedInRun + 1,
                  Len(batchStarted))
               = SubSeq(pendingFiles, 1, startedInRun)

\* After stopProcessing no file is set to "processing".
NoStartAfterStop ==
    batchStopped =>
        /\ batchStarted' = batchStarted
        /\ \A id \in BatchIds :
               statusOf(id) = "pending" => statusOf(id)' # "processing"

\* The file being analysed stays so until it is completed or in error.
AnalysisNotInterrupted ==
    \A id \in BatchIds :
        statusOf(id) = "processing"
            => statusOf(id)' \in {"processing", "completed", "error"}

\* C22: during processFiles at most one file is "processing" at any time,
\* the files are started in list order, and once stopProcessing has been
\* called no further pending file is started, while the file being
\* analysed is not interrupted and ends as completed or error.
C22_SequentialWithStop ==
    /\ [](AtMostOneProcessing /\ StartedInListOrder)
    /\ [][NoStartAfterStop /\ AnalysisNotInterrupted]_vars

\* A run stopped during its first file: that file is completed, the two
\* behind it were never started.
C22_StoppedWitness ==
    /\ batchPc = "end"
    /\ batchStopped
    /\ Len(pendingFiles) = 3
    /\ batchIndex = 1
    /\ statusOf(pendingFiles[1]) = "completed"
    /\ statusOf(pendingFiles[2]) = "pending"
    /\ statusOf(pendingFiles[3]) = "pending"

\* The steps a file's status may take.
StatusSteps ==
    { <<"pending", "processing">>, <<"processing", "completed">>,
      <<"processing", "error">> }

StatusMovesForward ==
    \A id \in BatchIds :
        \/ statusOf(id)' = statusOf(id)
        \/ <<statusOf(id), statusOf(id)'>> \in StatusSteps
        \/ statusOf(id)' = "removed"
        \/ statusOf(id) = "removed" /\ statusOf(id)' = "pending"

\* A file that was removed does not come back.
RemovedStaysRemoved ==
    \A id \in BatchIds :
        (statusOf(id) = "removed" /\ id <= batchNextId)
            => statusOf(id)' = "removed"

entriesOf(id) ==
    { i \in 1 .. Len(batchResults) : batchResults[i].id = id }

\* One entry for each file that is completed or in error, of its kind.
OneEntryPerFinishedFile ==
    \A i \in 1 .. Len(batchFiles) :
        LET file == batchFiles[i]
        IN  /\ file.status \in {"completed", "error"} =>
                /\ Cardinality(entriesOf(file.id)) = 1
                /\ \A e \in entriesOf(file.id) :
                       /\ batchResults[e].result = (file.status = "completed")
                       /\ batchResults[e].error = (file.status = "error")
            /\ file.status \in {"pending", "processing"} =>
                   entriesOf(file.id) = {}

\* A file in error leaves the flag of the run up: the loop goes on to the
\* next pending file.
FailureKeepsRunning ==
    (batchPc = "loop" /\ ~batchStopped) => processingRef

\* Every file is set to "processing" at most once.
StartedOnce ==
    \A i \in 1 .. Len(batchStarted), j \in 1 .. Len(batchStarted) :
        batchStarted[i] = batchStarted[j] => i = j

\* C26: a file's status only moves pending -> processing -> completed or
\* pending -> processing -> error; a file that is completed or in error is
\* not processed again by a later run; a failed file does not keep the
\* remaining pending files from being processed; and each file that is
\* completed or in error has exactly one entry in results with its id,
\* with a result and no error when completed, an error and no result when
\* failed.
C26_FileLifecycle ==
    /\ [](OneEntryPerFinishedFile /\ FailureKeepsRunning /\ StartedOnce)
    /\ [][StatusMovesForward /\ RemovedStaysRemoved]_vars

\* A second run, after a run whose first file failed and whose second
\* file was completed.
C26_SecondRunWitness ==
    /\ batchPc = "analyzing"
    /\ Len(batchFiles) = 3
    /\ batchFiles[1].status = "error"
    /\ batchFiles[2].status = "completed"
    /\ batchFiles[3].status = "processing"
    /\ pendingFiles = <<batchFiles[3].id>>
    /\ Len(batchResults) = 2

NoneProcessing ==
    \A i \in 1 .. Len(batchFiles) : batchFiles[i].status # "processing"

\* At the end of a run: without a stop none of its files is pending; with
\* a stop the files not yet started are pending.
RunEndsClean ==
    batchPc = "end" =>
        /\ NoneProcessing
        /\ ~batchStopped =>
               \A k \in 1 .. Len(pendingFiles) :
                   statusOf(pendingFiles[k]) \in {"completed", "error"}
        /\ \A k \in 1 .. Len(pendingFiles) :
               IF k <= batchIndex
               THEN statusOf(pendingFiles[k]) \in {"completed", "error"}
               ELSE statusOf(pendingFiles[k]) = "pending"

\* A run takes the files that are pending, and no others: those the run
\* before left behind, if they are still in the list.
ResumeTakesPending ==
    (batchPc = "idle" /\ batchPc' = "loop") =>
        /\ \A id \in BatchIds :
               (\E k \in 1 .. Len(pendingFiles') : pendingFiles'[k] = id)
                   <=> statusOf(id) = "pending"
        /\ \A k \in (batchIndex + 1) .. Len(pendingFiles) :
               statusOf(pendingFiles[k]) # "removed"
                   => \E n \in 1 .. Len(pendingFiles') :
                          pendingFiles'[n] = pendingFiles[k]

\* C27: if every analysis of a file returns or throws, every run of
\* processFiles ends with isProcessing false and no file "processing";
\* without a stop no file that was pending at its start is left pending;
\* with a stop the files not yet started remain pending, and a following
\* run processes exactly those.
C27_RunEndsAndResumes ==
    /\ (isProcessing ~> (~isProcessing /\ NoneProcessing))
    /\ []RunEndsClean
    /\ [][ResumeTakesPending]_vars
    /\ ((batchPc = "loop" /\ batchIndex = 0 /\ ~batchStopped)
            ~> (batchPc = "end"
                   /\ (batchStopped \/ batchIndex = Len(pendingFiles))))

\* A run that resumes after a stopped one: it takes the two files the
\* stopped run left pending.
C27_ResumedWitness ==
    /\ batchPc = "end"
    /\ ~batchStopped
    /\ Len(batchFiles) = 3
    /\ Len(pendingFiles) = 2
    /\ batchIndex = 2
    /\ batchResumes
    /\ batchStarted = <<1, 2, 3>>
    /\ pendingCount = 0

----------------------------------------------------------------------------
(***************************************************************************)
(* The silence test of the two segmenters, if (rms < threshold), at two    *)
(* settings of params.pitchSensitivity.                                    *)
(***************************************************************************)
SensitivityStep == 5    \* the settings tried are the multiples of this in 0..100

Sensitivities == { s \in 0 .. 100 : s % SensitivityStep = 0 }

SensRmsLevels ==
    { Whole(0), Frac(1, 2000), Frac(1, 1000), Frac(1, 200), Frac(1, 100),
      Frac(1, 20), Frac(1, 10), Frac(1, 2) }

thresholdOf(path, sensitivity) ==
    IF path = "single" THEN rmsThresholdAt(sensitivity)
    ELSE minAmplitudeAt(sensitivity)

InitSens ==
    /\ IdleButSens
    /\ sensPath \in {"single", "batch"}
    /\ sensLower \in Sensitivities
    /\ sensHigher \in { s \in Sensitivities : s > sensLower }
    /\ sensRms \in SensRmsLevels
    /\ sensSilent = <<>>
    /\ sensPc = "input"

\* if (rms < rmsThreshold) in extractMelody
SilenceTest ==
    /\ UNCHANGED notSensVars
    /\ sensPc = "input"
    /\ sensPath = "single"
    /\ sensSilent' = <<FracLt(sensRms, rmsThresholdAt(sensLower)),
                       FracLt(sensRms, rmsThresholdAt(sensHigher))>>
    /\ sensPc' = "done"
    /\ UNCHANGED <<sensPath, sensLower, sensHigher, sensRms>>

\* if (rms < minAmplitude) in analyzeAudioFile
SilenceTest_batch ==
    /\ UNCHANGED notSensVars
    /\ sensPc = "input"
    /\ sensPath = "batch"
    /\ sensSilent' = <<FracLt(sensRms, minAmplitudeAt(sensLower)),
                       FracLt(sensRms, minAmplitudeAt(sensHigher))>>
    /\ sensPc' = "done"
    /\ UNCHANGED <<sensPath, sensLower, sensHigher, sensRms>>

NextSens == SilenceTest \/ SilenceTest_batch

SpecSens == InitSens /\ [][NextSens]_vars

\* The threshold does not rise with the setting, and a frame that is not
\* silence at the lower setting is not silence at the higher one.
MoreSensitiveHearsMore ==
    /\ FracLe(thresholdOf(sensPath, sensHigher),
              thresholdOf(sensPath, sensLower))
    /\ sensPc = "done" => (~sensSilent[1] => ~sensSilent[2])

\* C23: for all sensitivities s1 < s2 in 0..100 the silence threshold of
\* the segmenter at s2 is not higher than at s1, so a frame treated as
\* pitched at s1 is never treated as silence at s2; for extractMelody of
\* the single-file page and for the segmenter of the batch page.
C23_MoreSensitiveHearsMore == MoreSensitiveHearsMore

\* The same of the batch page alone.
C23_BatchHearsMore == sensPath = "batch" => MoreSensitiveHearsMore

\* extractMelody: a frame of rms 0.005 is pitched at the setting 10 and
\* silence at the setting 100.
C23_SingleFileHearsLess ==
    /\ sensPc = "done"
    /\ sensPath = "single"
    /\ sensLower = 10
    /\ sensHigher = 100
    /\ sensRms = Frac(1, 200)
    /\ sensSilent = <<FALSE, TRUE>>

\* The batch page: a frame of rms 0.05 is silence at 10 and pitched at 100.
C23_BatchHearsMoreReached ==
    /\ sensPc = "done"
    /\ sensPath = "batch"
    /\ sensLower = 10
    /\ sensHigher = 100
    /\ sensRms = Frac(1, 20)
    /\ sensSilent = <<TRUE, FALSE>>

----------------------------------------------------------------------------
(* The segmenters again: what a frame does to the note in progress, and    *)
(* the shape of the melody they return.                                    *)

\* The frame the loop is about to process.
frameAhead == segFrames[segFrame + 1]

hopOf(path) == IF path = "single" THEN hopSize_melody ELSE hopSize_batch

silentFrame(frame) ==
    IF segPath = "single" THEN FracLt(frame.rms, rmsThreshold)
    ELSE FracLt(frame.rms, minAmplitude)

\* A frame that is not silent and whose frequency is not taken: none
\* detected, or outside the band of the page.
rejectedFrame(frame) ==
    /\ ~silentFrame(frame)
    /\ IF segPath = "single" THEN frequencyToNote(frame.pitch) = rest
       ELSE outOfRange_batch(frame.pitch)

noteInProgress == segLastNote # <<>> /\ segLastNote # rest

longEnough(span) ==
    IF segPath = "single" THEN FracLt(minDuration, span)
    ELSE FracLe(minDuration, span)

\* A pass of the loop over a rejected frame, with a note in progress,
\* closes the note at the start of the frame.
RejectedFrameEndsNote ==
    (/\ segPc = "frames"
     /\ segFrame < Len(segFrames)
     /\ segFrame' = segFrame + 1
     /\ rejectedFrame(frameAhead)
     /\ noteInProgress)
        => /\ segLastNote' = <<>>
           /\ LET span == FracSub(frameTime(hopOf(segPath)), segNoteStartTime)
              IN  IF longEnough(span)
                  THEN /\ Len(segNotes') = Len(segNotes) + 1
                       /\ segNotes'[Len(segNotes')].time = segNoteStartTime
                       /\ segNotes'[Len(segNotes')].duration = span
                  ELSE segNotes' = segNotes

\* C24: when a non-silent frame's frequency is rejected while a note is in
\* progress, the note is closed at the frame's start time (emitted if long
\* enough, else discarded) and no note is in progress afterwards, so that
\* no note extends over a rejected frame; on both pages.
C24_RejectedFrameEndsNote == [][RejectedFrameEndsNote]_vars

\* A silent frame does close the note in progress.
SilentFrameEndsNote ==
    (/\ segPc = "frames"
     /\ segFrame < Len(segFrames)
     /\ segFrame' = segFrame + 1
     /\ silentFrame(frameAhead)
     /\ noteInProgress)
        => segLastNote' = <<>>

C24_SilentFrameEndsNote == [][SilentFrameEndsNote]_vars

\* A note of extractMelody still in progress after a rejected frame.
C24_SingleFileHeldReached ==
    /\ segPath = "single"
    /\ segPc = "frames"
    /\ segFrame >= 2
    /\ ~silentFrame(segFrames[segFrame])
    /\ segFrames[segFrame].pitch = NoPitch
    /\ noteInProgress
    /\ FracLt(segNoteStartTime, Frac((segFrame - 1) * hopSize_melody, sampleRate))

\* A note of the batch segmenter still in progress after a rejected frame.
C24_BatchHeldReached ==
    /\ segPath = "batch"
    /\ segPc = "frames"
    /\ segFrame >= 2
    /\ ~silentFrame(segFrames[segFrame])
    /\ segFrames[segFrame].pitch = NoPitch
    /\ noteInProgress
    /\ FracLt(segNoteStartTime, Frac((segFrame - 1) * hopSize_batch, sampleRate))

\* The notes a page returns: onsets strictly increasing and at the start
\* of a frame, durations above 0, and every note over before the next one
\* starts.
WellFormedMelody(notes, hop) ==
    \A k \in 1 .. Len(notes) :
        /\ FracLt(Whole(0), notes[k].duration)
        /\ FracLe(Whole(0), notes[k].time)
        /\ FracDiv(notes[k].time, Frac(hop, sampleRate))[2] = 1
        /\ k < Len(notes) =>
               /\ FracLt(notes[k].time, notes[k + 1].time)
               /\ FracLe(FracAdd(notes[k].time, notes[k].duration),
                         notes[k + 1].time)

\* C28: after any sequence of frames the notes of the segmenter, before
\* quantization, have strictly increasing onsets, each the start time of
\* a frame, durations greater than 0, and onset + duration at most the
\* next onset; a note is emitted at most once (the list only grows by one
\* note at its end).
C28_WellFormedMelody ==
    /\ [](segPc # "idle" =>
             /\ WellFormedMelody(segNotes, hopOf(segPath))
             /\ segPc = "done" => WellFormedMelody(segResult, hopOf(segPath)))
    /\ [][\/ segNotes' = segNotes
          \/ /\ Len(segNotes') = Len(segNotes) + 1
             /\ SubSeq(segNotes', 1, Len(segNotes)) = segNotes]_vars

\* A returned melody whose notes follow each other without a gap.
C28_BackToBackWitness ==
    /\ segPc = "done"
    /\ Len(segResult) >= 3
    /\ FracAdd(segResult[1].time, segResult[1].duration) = segResult[2].time
    /\ FracAdd(segResult[2].time, segResult[2].duration) = segResult[3].time

\* The moment the last note of the melody ends:
\* notes[notes.length - 1].time + (notes[notes.length - 1].duration || 0.25)
melodyEnd(notes) ==
    FracAdd(notes[Len(notes)].time,
            orElse(notes[Len(notes)].duration, Frac(1, 4)))

\* The returned chords are one per entry of the progression, chord i (from
\* 0) starting at i * D / length and lasting D / length.
SpreadOverMelody ==
    LET progression == progressionOf(chordsKey)
        chordLength == FracDiv(melodyEnd(chordsMelody),
                               Whole(Len(progression)))
    IN  /\ Len(chordsResult) = Len(progression)
        /\ \A i \in 1 .. Len(chordsResult) :
               /\ chordsResult[i].name = progression[i]
               /\ chordsResult[i].time = FracMul(Whole(i - 1), chordLength)
               /\ chordsResult[i].duration = chordLength

\* Every chord name of the progression has its root among noteNames.
rootsInTable(key) ==
    \A i \in 1 .. Len(progressionOf(key)) :
        indexOf(noteNames, rootNoteOf(progressionOf(key)[i])) >= 0

\* C25: for every key of the progression table of generateChords and every
\* melody of at least 4 notes whose last note ends at D, generateChords
\* returns one chord for each entry of the progression, chord i starting
\* at i * D / progressionLength and lasting D / progressionLength, so that
\* the chords tile [0, D).
C25_SpreadEvenlyAndCompletely ==
    (chordsPc = "done" /\ chordsPath = "batch"
        /\ chordsKey \in DOMAIN chordProgressions
        /\ Len(chordsMelody) >= 4)
        => SpreadOverMelody

\* The same for the keys whose progression names no flat root.
C25_SpreadWithoutFlats ==
    (chordsPc = "done" /\ chordsPath = "batch"
        /\ rootsInTable(chordsKey)
        /\ Len(chordsMelody) >= 4)
        => SpreadOverMelody

\* The key F with a melody of four notes: the chord Bb is left out.
C25_FlatChordDropped ==
    /\ chordsPc = "done"
    /\ chordsPath = "batch"
    /\ chordsKey = "F"
    /\ Len(chordsMelody) = 4
    /\ Len(chordsResult) = 3

----------------------------------------------------------------------------
(***************************************************************************)
(* The note editor (client/src/components/note-editor.tsx).  Its melody    *)
(* and chords are the props the page hands in and takes back through       *)
(* onMelodyChange and onChordsChange; history is the component's own       *)
(* state.  A click is one action: the handler runs against the props of    *)
(* the last render and the page renders again before the next click.       *)
(***************************************************************************)
NOTE_NAMES ==
    << <<"C">>, <<"C", "#">>, <<"D">>, <<"D", "#">>, <<"E">>, <<"F">>,
       <<"F", "#">>, <<"G">>, <<"G", "#">>, <<"A">>, <<"A", "#">>, <<"B">> >>

OCTAVES == <<2, 3, 4, 5, 6, 7>>

\* The editor's parseNote: note.match(/^([A-Ga-g]#?)(\d+)?$/), the name in
\* upper case and parseInt(match[2] || "4"); C4 when the name does not
\* match.
parseNote_editor(note) ==
    LET nameLen == IF Len(note) >= 2 /\ note[2] = "#" THEN 2 ELSE 1
        digits == SubSeq(note, nameLen + 1, Len(note))
    IN  IF /\ Len(note) >= 1
           /\ note[1] \in LowerLetters \cup UpperLetters
           /\ PrefixIn(digits, DigitChars) = Len(digits)
        THEN [noteName |-> [k \in 1 .. nameLen |-> toUpperCase(note[k])],
              octave |-> IF digits = <<>> THEN 4 ELSE parseInt(digits)]
        ELSE [noteName |-> <<"C">>, octave |-> 4]

\* `${noteName}${octave}`
formatNote(noteName, octave) == noteName \o octaveChars(octave)

\* The name moveNoteUp writes over a note.
moveNoteUp(note) ==
    LET parsed == parseNote_editor(note)
        noteIdx == indexOf(NOTE_NAMES, parsed.noteName)
    IN  IF noteIdx = Len(NOTE_NAMES) - 1
        THEN formatNote(At0(NOTE_NAMES, 0),
                        IF parsed.octave + 1 < 7 THEN parsed.octave + 1 ELSE 7)
        ELSE formatNote(At0(NOTE_NAMES, noteIdx + 1), parsed.octave)

\* The name moveNoteDown writes over a note.
moveNoteDown(note) ==
    LET parsed == parseNote_editor(note)
        noteIdx == indexOf(NOTE_NAMES, parsed.noteName)
    IN  IF noteIdx = 0
        THEN formatNote(At0(NOTE_NAMES, Len(NOTE_NAMES) - 1),
                        IF parsed.octave - 1 > 2 THEN parsed.octave - 1 ELSE 2)
        ELSE formatNote(At0(NOTE_NAMES, noteIdx - 1), parsed.octave)

\* prev.slice(-19) with the first snapshots kept instead of the last.
recentSnapshots_oldest(snapshots) ==
    SubSeq(snapshots, 1, IF Len(snapshots) < 19 THEN Len(snapshots) ELSE 19)

\* prev.slice(-19)
recentSnapshots(snapshots) ==
    SubSeq(snapshots, IF Len(snapshots) > 19 THEN Len(snapshots) - 18 ELSE 1,
           Len(snapshots))

\* saveHistory: the snapshots after the (melody, chords) pair of the last
\* render was pushed.
saveHistory(snapshots, notes, held) ==
    Append(recentSnapshots(snapshots), [melody |-> notes, chords |-> held])

\* newMelody[index] = { ...newMelody[index], ...updates } for an update of
\* the name.
updateNote(notes, index, name) ==
    [notes EXCEPT ![index + 1] = [@ EXCEPT !.note = name]]

\* newChords[index] = { ...newChords[index], ...updates } for an update of
\* the name.
updateChord(held, index, name) ==
    [held EXCEPT ![index + 1] = [@ EXCEPT !.name = name]]

\* chords.filter((_, i) => i !== index)
deleteChord(held, index) ==
    SubSeq(held, 1, index) \o SubSeq(held, index + 2, Len(held))

\* The editor's addChord: C major for one second after the last chord.
addChord(held) ==
    LET lastChord == IF held = <<>> THEN undefined ELSE held[Len(held)]
    IN  Append(held,
            Chord(<< <<"C", "4">>, <<"E", "4">>, <<"G", "4">> >>, "C",
                  IF lastChord = undefined THEN Whole(1)
                  ELSE FracAdd(orElse(lastChord.time, Whole(0)),
                               orElse(lastChord.duration, Whole(1))),
                  Whole(1)))

\* parseChordName(name).root, which is name.match(/^([A-Ga-g]#?)(.*)$/)[1]
\* in upper case or C, followed by the suffix of the chosen chord type.
chordOfType(name, suffix) ==
    (IF Len(name) >= 1 /\ SubSeq(name, 1, 1) \in LowerLetters \cup UpperLetters
     THEN toUpperCase(SubSeq(name, 1, 1))
              \o (IF Len(name) >= 2 /\ SubSeq(name, 2, 2) = "#"
                  THEN "#" ELSE "")
     ELSE "C") \o suffix

MaxPitchEdits == 2
MaxVariedEdits == 1
MaxSessionEdits == 22
MaxEditorNotes == 2

\* The names the analysis hands to the editor: lower case, 's' for sharp,
\* in the octaves the editor offers.
AnalysisNames ==
    { At0(noteNames, i) \o octaveChars(OCTAVES[o]) :
          i \in 0 .. 11, o \in 1 .. Len(OCTAVES) }

\* The names the editor writes: formatNote of a name of NOTE_NAMES and an
\* octave of OCTAVES.
EditorNames ==
    { formatNote(NOTE_NAMES[i], OCTAVES[o]) :
          i \in 1 .. 12, o \in 1 .. Len(OCTAVES) }

EditorNote(name, time) ==
    [note |-> name, time |-> time, duration |-> Frac(1, 4),
     velocity |-> Frac(4, 5)]

\* The (melody, chords) pair on the screen.
editorPair == [melody |-> editorMelody, chords |-> editorChords]

\* Edits of every kind are explored at the start of a session; after
\* them a session of undo goes on moving its first note up.
variedEdits ==
    editorEdits
        < (IF editorSession = "pitch" THEN MaxPitchEdits ELSE MaxVariedEdits)

editableNotes ==
    { index \in 0 .. Len(editorMelody) - 1 :
          \/ variedEdits
          \/ /\ editorSession = "undo"
             /\ index = 0
             /\ editorEdits < MaxSessionEdits }

\* A session on one note the analysis named.
InitEditorPitch ==
    /\ IdleButEditor
    /\ editorSession = "pitch"
    /\ \E name \in AnalysisNames : editorMelody = <<EditorNote(name, Whole(0))>>
    /\ editorChords = <<>>
    /\ editorHistory = <<>>
    /\ editorBase = <<editorPair>>
    /\ editorDepth = 0
    /\ editorEdits = 0

\* A session on a short melody with or without a chord.
InitEditor ==
    /\ IdleButEditor
    /\ editorSession = "undo"
    /\ editorMelody \in
           { <<EditorNote(<<"a", "6">>, Whole(0))>>,
             <<EditorNote(<<"c", "4">>, Whole(0)),
               EditorNote(<<"e", "4">>, Frac(1, 4))>> }
    /\ editorChords \in { <<>>, <<Chord(<< <<"c", "4">>, <<"e", "4">>,
                                           <<"g", "4">> >>, "C", Whole(0),
                                        Whole(1))>> }
    /\ editorHistory = <<>>
    /\ editorBase = <<editorPair>>
    /\ editorDepth = 0
    /\ editorEdits = 0

\* What every edit does around its change: saveHistory(), then
\* onMelodyChange or onChordsChange.  The mark moves on when more edits
\* than the history holds lie between it and the screen.
Edited(notes, held) ==
    /\ UNCHANGED notEditorVars
    /\ editorHistory' = saveHistory(editorHistory, editorMelody, editorChords)
    /\ editorMelody' = notes
    /\ editorChords' = held
    /\ IF editorDepth < 20
       THEN editorDepth' = editorDepth + 1 /\ UNCHANGED editorBase
       ELSE /\ editorDepth' = 0
            /\ editorBase' = <<[melody |-> notes, chords |-> held]>>
    /\ editorEdits' = editorEdits + 1
    /\ UNCHANGED editorSession

\* moveNoteUp(index)
MoveNoteUp ==
    \E index \in editableNotes :
        Edited(updateNote(editorMelody, index,
                          moveNoteUp(editorMelody[index + 1].note)),
               editorChords)

\* moveNoteDown(index)
MoveNoteDown ==
    /\ variedEdits
    /\ \E index \in editableNotes :
           Edited(updateNote(editorMelody, index,
                             moveNoteDown(editorMelody[index + 1].note)),
                  editorChords)

\* The note selector of the dialog:
\* updateNote(editingNote.index, { ...note, note: formatNote(value, octave) })
SelectNoteName ==
    /\ variedEdits
    /\ editorSession = "pitch"
    /\ \E index \in editableNotes, v \in 1 .. Len(NOTE_NAMES) :
           Edited(updateNote(editorMelody, index,
                      formatNote(NOTE_NAMES[v],
                          parseNote_editor(editorMelody[index + 1].note).octave)),
                  editorChords)

\* The octave selector of the dialog:
\* updateNote(editingNote.index, { ...note, note: formatNote(noteName, value) })
SelectOctave ==
    /\ variedEdits
    /\ editorSession = "pitch"
    /\ \E index \in editableNotes, o \in 1 .. Len(OCTAVES) :
           Edited(updateNote(editorMelody, index,
                      formatNote(
                          parseNote_editor(editorMelody[index + 1].note).noteName,
                          OCTAVES[o])),
                  editorChords)

\* deleteNote(index)
DeleteNote ==
    /\ variedEdits
    /\ \E index \in editableNotes :
           Edited(deleteNote(editorMelody, index), editorChords)

\* addNote()
AddNote ==
    /\ variedEdits
    /\ Len(editorMelody) < MaxEditorNotes
    /\ Edited(addNote(editorMelody), editorChords)

\* The chord type selector of the dialog choosing Minor:
\* updateChord(editingChord.index, { ...chord, name: `${root}${value}` })
UpdateChord ==
    /\ variedEdits
    /\ \E index \in 0 .. Len(editorChords) - 1 :
           Edited(editorMelody,
                  updateChord(editorChords, index,
                              chordOfType(editorChords[index + 1].name, "m")))

\* deleteChord(index)
DeleteChord ==
    /\ variedEdits
    /\ \E index \in 0 .. Len(editorChords) - 1 :
           Edited(editorMelody, deleteChord(editorChords, index))

\* addChord()
AddChord ==
    /\ variedEdits
    /\ Len(editorChords) < MaxEditorNotes
    /\ Edited(editorMelody, addChord(editorChords))

\* undo(): nothing with an empty history; else the last snapshot is taken
\* off the history and handed to onMelodyChange and onChordsChange.
Undo ==
    /\ UNCHANGED notEditorVars
    /\ editorSession = "undo"
    /\ IF Len(editorHistory) = 0 THEN UNCHANGED editorVars
       ELSE LET previous == editorHistory[Len(editorHistory)]
            IN  /\ editorHistory'
                       = SubSeq(editorHistory, 1, Len(editorHistory) - 1)
                /\ editorMelody' = previous.melody
                /\ editorChords' = previous.chords
                /\ IF editorDepth > 0
                   THEN editorDepth' = editorDepth - 1 /\ UNCHANGED editorBase
                   ELSE editorDepth' = 0 /\ editorBase' = <<previous>>
                /\ UNCHANGED <<editorSession, editorEdits>>

NextEditorPitch ==
    \/ MoveNoteUp
    \/ MoveNoteDown
    \/ SelectNoteName
    \/ SelectOctave

SpecEditorPitch == InitEditorPitch /\ [][NextEditorPitch]_vars

NextEditor ==
    \/ MoveNoteUp
    \/ MoveNoteDown
    \/ DeleteNote
    \/ AddNote
    \/ UpdateChord
    \/ DeleteChord
    \/ AddChord
    \/ Undo

SpecEditor == InitEditor /\ [][NextEditor]_vars

\* The pitch a name stands for, in half steps above C0: its letter in
\* either case, a sharp written 's' or '#', and its octave.
pitchOf(name) ==
    12 * DigitValue(name[Len(name)])
        + indexOf(noteNames,
                  <<toLowerCase(name[1])>>
                      \o (IF Len(name) = 3 THEN <<"s">> ELSE <<>>))

\* Every name of the melody the editor wrote is exported at the key
\* 12 * (octave + 1) + its index in NOTE_NAMES.
ExportedAsShown(names) ==
    \A k \in 1 .. Len(editorMelody) :
        editorMelody[k].note \in names
            => noteToMidi(editorMelody[k].note)
                   = pitchOf(editorMelody[k].note) + 12

\* A move of a note the analysis named, in a session on one note, changes
\* the pitch by semitones half steps.
MovesBy(names, semitones) ==
    (editorSession = "pitch" /\ editorMelody[1].note \in names)
        => pitchOf(editorMelody'[1].note)
               = pitchOf(editorMelody[1].note) + semitones

\* C29: every name the editor writes into the melody (formatNote of one of
\* the twelve NOTE_NAMES with an octave 2..7, from the selectors and from
\* moveNoteUp / moveNoteDown) is exported by noteToMidi at the key
\* 12 * (octave + 1) + index of the name in NOTE_NAMES; and moveNoteUp /
\* moveNoteDown on a name the analysis produced (sharps written with 's')
\* change its pitch by exactly one semitone up / down.
C29_EditedNoteExportedAsShown ==
    /\ [](editorSession = "pitch" => ExportedAsShown(EditorNames))
    /\ [][/\ MoveNoteUp => MovesBy(AnalysisNames, 1)
          /\ MoveNoteDown => MovesBy(AnalysisNames, -1)]_vars

\* The names without a sharp that the editor writes are exported as shown.
C29_NaturalsExportedAsShown ==
    editorSession = "pitch"
        => ExportedAsShown({ name \in EditorNames : Len(name) = 2 })

\* The moves of the names without a sharp that the analysis produced are
\* one semitone, but for b7 moved up and c2 moved down.
C29_NaturalsMoveBySemitone ==
    [][/\ MoveNoteUp
              => MovesBy({ name \in AnalysisNames :
                               Len(name) = 2 /\ name # <<"b", "7">> }, 1)
       /\ MoveNoteDown
              => MovesBy({ name \in AnalysisNames :
                               Len(name) = 2 /\ name # <<"c", "2">> }, -1)]_vars

\* The editor wrote F#3 and the export sends key 60.
C29_SharpExportedAsC4 ==
    /\ editorSession = "pitch"
    /\ Len(editorHistory) >= 1
    /\ editorMelody[1].note = <<"F", "#", "3">>
    /\ noteToMidi(editorMelody[1].note) = 60

\* fs3 was moved up and the melody holds C#4.
C29_SharpMovedFromC4 ==
    /\ editorSession = "pitch"
    /\ Len(editorHistory) = 1
    /\ editorHistory[1].melody[1].note = <<"f", "s", "3">>
    /\ editorMelody[1].note = <<"C", "#", "4">>

\* The step is an edit: one of the handlers that call saveHistory.
EditStep ==
    \/ MoveNoteUp
    \/ MoveNoteDown
    \/ DeleteNote
    \/ AddNote
    \/ UpdateChord
    \/ DeleteChord
    \/ AddChord

\* An edit pushes the pair that held just before it, on top of the last
\* 19 snapshots.
EditPushesPair ==
    EditStep =>
        /\ Len(editorHistory') >= 1
        /\ editorHistory'[Len(editorHistory')] = editorPair
        /\ SubSeq(editorHistory', 1, Len(editorHistory') - 1)
               = SubSeq(editorHistory,
                        IF Len(editorHistory) > 19
                        THEN Len(editorHistory) - 18 ELSE 1,
                        Len(editorHistory))

\* Undo with an empty history changes nothing; else it takes the last
\* snapshot off the history and puts its pair on the screen.
UndoRestoresPair ==
    Undo =>
        IF editorHistory = <<>>
        THEN UNCHANGED <<editorMelody, editorChords, editorHistory>>
        ELSE /\ editorPair' = editorHistory[Len(editorHistory)]
             /\ editorHistory'
                    = SubSeq(editorHistory, 1, Len(editorHistory) - 1)

\* C30: after any sequence of edits and undos the history holds at most 20
\* snapshots; each edit pushes the (melody, chords) pair that held just
\* before it; undo with an empty history changes nothing; undo restores
\* the pair that held before the most recent edit not yet undone, so that
\* k <= 20 edits followed by k undos give back the melody and chords from
\* before the first of them (the pair at the mark whenever no edit since
\* the mark is left to undo).
C30_UndoHistory ==
    /\ [](editorSession = "undo" =>
              /\ Len(editorHistory) <= 20
              /\ editorDepth = 0 => <<editorPair>> = editorBase)
    /\ [][EditPushesPair /\ UndoRestoresPair]_vars

\* Twenty edits were made and all of them undone, back to the pair before
\* the first of them.
C30_TwentyUndoneWitness ==
    /\ editorSession = "undo"
    /\ editorEdits = 20
    /\ editorHistory = <<>>
    /\ editorDepth = 0
    /\ editorBase = <<editorPair>>

====
